---- MODULE Spec2Model ----
(***************************************************************************)
(* Model of the sensor-measurement ETL pipeline of src/extraction.py:      *)
(* filename classification (parse_filename), the two extractors            *)
(* (extract_data_from_mat, extract_data_from_tdms), the directory walk     *)
(* with its counters, and the HDF5 save loop.                              *)
(*                                                                         *)
(* Python strings that the code takes apart (file names, paths, names that *)
(* are sanitized) are tuples of one-character strings.  A Python value     *)
(* that may be None / a missing dict key is an option: <<>> is None (or    *)
(* "key absent"), <<v>> is the value v.  A numpy array is its shape, a     *)
(* tuple of dimensions; a 1-D array of time stamps is the tuple of its     *)
(* values, counted in integer ticks.  A float 1.0/x is the rational        *)
(* [num |-> 1, den |-> x].                                                 *)
(***************************************************************************)
EXTENDS Integers, Sequences, FiniteSets, TLC

VARIABLES
    phase,                          \* "parse" | "walk" | "summary" | "write" | "done"
    filename,                       \* loop local: the file name being handled
    relative_filepath,              \* loop local: its path relative to the base directory
    file_content,                   \* what the libraries find in that file
    metadata,                       \* loop local: parse_filename's result (option)
    extracted_info,                 \* loop local: the extractor's result (option)
    visited,                        \* relative paths os.walk has yielded so far
    total_files_in_directory,
    relevant_files_attempted,
    skipped_initial_files,
    all_extracted_info,             \* dict in insertion order: <<[path, info], ...>>
    processed_with_data_files,
    processed_metadata_only_files,
    files_returning_none,
    h5file,                         \* the archive: top-level groups in creation order
    write_pos,                      \* number of records the save loop has consumed
    sensors_group,                  \* the module-level name `sensors_group`
    save_error,                     \* the save loop's outer except was taken
    sanitized,                      \* the names the writer's sanitizers derive from `filename`
    csv_files,                      \* the output directory: <<[path, table], ...>>
    read_pos,                       \* number of top-level groups the flattener has consumed
    processed_count,
    skipped_no_data_count,
    error_count

vars == <<phase, filename, relative_filepath, file_content, metadata, extracted_info,
          visited, total_files_in_directory, relevant_files_attempted,
          skipped_initial_files, all_extracted_info, processed_with_data_files,
          processed_metadata_only_files, files_returning_none, h5file, write_pos,
          sensors_group, save_error, sanitized, csv_files, read_pos, processed_count,
          skipped_no_data_count, error_count>>

walkVars == <<visited, total_files_in_directory, relevant_files_attempted,
              skipped_initial_files, all_extracted_info, processed_with_data_files,
              processed_metadata_only_files, files_returning_none>>

saveVars == <<h5file, write_pos, sensors_group, save_error>>

csvVars == <<csv_files, read_pos, processed_count, skipped_no_data_count, error_count>>

-----------------------------------------------------------------------------
(* Options and strings                                                     *)

None == <<>>
Some(v) == <<v>>
IsNone(o) == o = <<>>
Val(o) == o[1]

UpperChars == <<"A","B","C","D","E","F","G","H","I","J","K","L","M","N","O","P","Q","R","S","T","U","V","W","X","Y","Z">>
LowerChars == <<"a","b","c","d","e","f","g","h","i","j","k","l","m","n","o","p","q","r","s","t","u","v","w","x","y","z">>
DigitChars == <<"0","1","2","3","4","5","6","7","8","9">>

Range(s) == {s[i] : i \in DOMAIN s}

DigitSet == Range(DigitChars)
UpperSet == Range(UpperChars)
AlnumSet == Range(DigitChars) \cup Range(UpperChars) \cup Range(LowerChars)

\* the lower-case letter of every upper-case letter
UpperToLower ==
    [c \in UpperSet |-> LowerChars[CHOOSE i \in DOMAIN UpperChars : UpperChars[i] = c]]

\* c.isdigit(), c.isalnum() for one character
IsDigit(c) == c \in DigitSet
IsAlnumChar(c) == c \in AlnumSet

\* str.lower() on one character
LowerChar(c) == IF c \in UpperSet THEN UpperToLower[c] ELSE c

\* str.lower()
StrLower(s) == [i \in DOMAIN s |-> LowerChar(s[i])]

\* sub in s
StrContains(s, sub) ==
    \E i \in 0..(Len(s) - Len(sub)) : SubSeq(s, i + 1, i + Len(sub)) = sub

\* s.startswith(p), s.endswith(p)
StartsWith(s, p) == Len(p) <= Len(s) /\ SubSeq(s, 1, Len(p)) = p
EndsWith(s, p) == Len(p) <= Len(s) /\ SubSeq(s, Len(s) - Len(p) + 1, Len(s)) = p

\* s.replace(c, r) for a one-character c and any string r
RECURSIVE StrReplace(_, _, _)
StrReplace(s, c, r) ==
    IF \A i \in DOMAIN s : s[i] # c THEN s
    ELSE (IF Head(s) = c THEN r ELSE <<Head(s)>>) \o StrReplace(Tail(s), c, r)

\* s.lstrip(c)
RECURSIVE LStrip(_, _)
LStrip(s, c) ==
    IF s # <<>> /\ Head(s) = c THEN LStrip(Tail(s), c) ELSE s

sep == "/"

-----------------------------------------------------------------------------
(* parse_filename                                                          *)

ExtMat == <<"m","a","t">>
ExtTdms == <<"t","d","m","s">>
NoSeverity == <<"N","o","_","S","e","v","e","r","i","t","y">>

\* The ways r'^(\d+Nm)_([^_]+)(_)?([^.]*)\.(mat|tdms)$' with re.IGNORECASE can
\* match s: i is the last digit of group 1, j the last character of group 2,
\* u whether group 3 took an underscore, k the last character of group 4.
RegexGroup1Ends(s) ==
    {i \in 1..Len(s) :
        /\ \A p \in 1..i : IsDigit(s[p])
        /\ i + 3 <= Len(s)
        /\ LowerChar(s[i + 1]) = "n"
        /\ LowerChar(s[i + 2]) = "m"
        /\ s[i + 3] = "_"}

RegexGroup2Ends(s, i) ==
    {j \in (i + 4)..Len(s) : \A p \in (i + 4)..j : s[p] # "_"}

RegexGroup3Takes(s, j) ==
    {u \in {0, 1} : u = 1 => (j + 1 <= Len(s) /\ s[j + 1] = "_")}

RegexGroup4Ends(s, j, u) ==
    {k \in (j + u)..Len(s) :
        /\ \A p \in (j + u + 1)..k : s[p] # "."
        /\ k + 1 <= Len(s)
        /\ s[k + 1] = "."
        /\ StrLower(SubSeq(s, k + 2, Len(s))) \in {ExtMat, ExtTdms}}

RegexMatches(s) ==
    UNION {UNION {UNION {{[i |-> i, j |-> j, u |-> u, k |-> k] :
                            k \in RegexGroup4Ends(s, j, u)} :
                         u \in RegexGroup3Takes(s, j)} :
                  j \in RegexGroup2Ends(s, i)} :
           i \in RegexGroup1Ends(s)}

\* re.match returns the first match in backtracking order: every quantifier
\* of the pattern is greedy, so the longest group 2, then group 3 present.
RegexFirst(s) ==
    LET ms == RegexMatches(s) IN
    CHOOSE m \in ms :
        \A o \in ms :
            \/ o.j < m.j
            \/ (o.j = m.j /\ o.u < m.u)
            \/ (o.j = m.j /\ o.u = m.u /\ o.k <= m.k)

\* parse_filename without the placeholder: the text of group 4 as it is
SeverityOfRaw(severity_match) == severity_match

\* severity = severity_match if severity_match else 'No_Severity'
SeverityOf(severity_match) ==
    IF severity_match # <<>> THEN severity_match ELSE NoSeverity

DirAcoustic == <<"a","c","o","u","s","t","i","c">>
DirVibration == <<"v","i","b","r","a","t","i","o","n">>
DirCurrentTemp == <<"c","u","r","r","e","n","t",",","t","e","m","p">>

TypeAcoustic == <<"A","c","o","u","s","t","i","c">>
TypeVibration == <<"V","i","b","r","a","t","i","o","n">>
TypeTempCurrent == <<"T","e","m","p","_","C","u","r","r","e","n","t">>
TypeMatUnknownPath == <<"M","a","t","_","U","n","k","n","o","w","n","_","P","a","t","h">>
TypeTdmsUnknownPath == <<"T","D","M","S","_","U","n","k","n","o","w","n","_","P","a","t","h">>

\* the hint with the 'vibration' folder looked for before the 'acoustic' one
SensorTypeHintVibrationFirst(filepath, file_extension) ==
    LET filepath_lower == StrLower(filepath) IN
    IF StrContains(filepath_lower, <<sep>> \o DirVibration \o <<sep>>) THEN Some(TypeVibration)
    ELSE IF StrContains(filepath_lower, <<sep>> \o DirAcoustic \o <<sep>>) THEN Some(TypeAcoustic)
    ELSE IF StrContains(filepath_lower, <<sep>> \o DirCurrentTemp \o <<sep>>) THEN Some(TypeTempCurrent)
    ELSE IF file_extension = ExtMat THEN Some(TypeMatUnknownPath)
    ELSE IF file_extension = ExtTdms THEN Some(TypeTdmsUnknownPath)
    ELSE None

\* the sensor type hint, from the directory names of the path and then from
\* the extension
SensorTypeHint(filepath, file_extension) ==
    LET filepath_lower == StrLower(filepath) IN
    IF StrContains(filepath_lower, <<sep>> \o DirAcoustic \o <<sep>>) THEN Some(TypeAcoustic)
    ELSE IF StrContains(filepath_lower, <<sep>> \o DirVibration \o <<sep>>) THEN Some(TypeVibration)
    ELSE IF StrContains(filepath_lower, <<sep>> \o DirCurrentTemp \o <<sep>>) THEN Some(TypeTempCurrent)
    ELSE IF file_extension = ExtMat THEN Some(TypeMatUnknownPath)
    ELSE IF file_extension = ExtTdms THEN Some(TypeTdmsUnknownPath)
    ELSE None

\* a parse_filename that gives a .mat descriptor to a name the pattern rejects
parse_filename_lenient(name, filepath) ==
    IF RegexMatches(name) = {}
    THEN Some([filename   |-> name,
               load       |-> <<>>,
               condition  |-> <<>>,
               severity   |-> NoSeverity,
               extension  |-> ExtMat,
               sensor_type |-> SensorTypeHint(filepath, ExtMat),
               filepath   |-> filepath])
    ELSE LET m == RegexFirst(name)
             file_extension == StrLower(SubSeq(name, m.k + 2, Len(name)))
         IN Some([filename   |-> name,
                  load       |-> SubSeq(name, 1, m.i + 2),
                  condition  |-> SubSeq(name, m.i + 4, m.j),
                  severity   |-> SeverityOf(SubSeq(name, m.j + m.u + 1, m.k)),
                  extension  |-> file_extension,
                  sensor_type |-> SensorTypeHint(filepath, file_extension),
                  filepath   |-> filepath])

\* parse_filename(filename, filepath): None, or the metadata dictionary
parse_filename(name, filepath) ==
    IF RegexMatches(name) = {} THEN None
    ELSE LET m == RegexFirst(name)
             file_extension == StrLower(SubSeq(name, m.k + 2, Len(name)))
         IN Some([filename   |-> name,
                  load       |-> SubSeq(name, 1, m.i + 2),
                  condition  |-> SubSeq(name, m.i + 4, m.j),
                  severity   |-> SeverityOf(SubSeq(name, m.j + m.u + 1, m.k)),
                  extension  |-> file_extension,
                  sensor_type |-> SensorTypeHint(filepath, file_extension),
                  filepath   |-> filepath])

-----------------------------------------------------------------------------
(* numpy shapes, dicts in insertion order                                  *)

RECURSIVE Size(_)
\* arr.size
Size(shape) == IF shape = <<>> THEN 1 ELSE Head(shape) * Size(Tail(shape))

\* arr.ndim
NDim(shape) == Len(shape)

\* arr.reshape(-1, 1) and arr.flatten().reshape(-1, 1)
ReshapeColumn(shape) == <<Size(shape), 1>>

\* k in d
DictHas(d, key) == \E i \in DOMAIN d : d[i].k = key

\* d[k]
DictGet(d, key) == d[CHOOSE i \in DOMAIN d : d[i].k = key].v

\* d[k] = v : an existing key keeps its place and takes the new value
DictPut(d, key, value) ==
    IF DictHas(d, key)
    THEN [i \in DOMAIN d |-> IF d[i].k = key THEN [k |-> key, v |-> value] ELSE d[i]]
    ELSE Append(d, [k |-> key, v |-> value])

\* any(arr.size > 0 for arr in sensor_values.values())
AnyNonEmpty(sensor_values) == \E i \in DOMAIN sensor_values : Size(sensor_values[i].v) > 0

\* [name for name, arr in sensor_values.items() if arr.size > 0]
RECURSIVE NonEmptyNames(_)
NonEmptyNames(sensor_values) ==
    IF sensor_values = <<>> THEN <<>>
    ELSE (IF Size(Head(sensor_values).v) > 0 THEN <<Head(sensor_values).k>> ELSE <<>>)
         \o NonEmptyNames(Tail(sensor_values))

-----------------------------------------------------------------------------
(* extract_data_from_mat                                                   *)

SignalSuffix == <<"_","S","i","g","n","a","l">>
TypeVibrationStructured == <<"V","i","b","r","a","t","i","o","n"," ","(","S","t","r","u","c","t","u","r","e","d"," ","M","a","t",")">>
TypeAcousticStructured == <<"A","c","o","u","s","t","i","c"," ","(","S","t","r","u","c","t","u","r","e","d"," ","M","a","t",")">>
TypeMatStructuredUnknown == <<"M","a","t","_","S","t","r","u","c","t","u","r","e","d","_","U","n","k","n","o","w","n">>

\* the dictionary both extractors start from; `keys` are the keys it holds
NewInfo(md, keys, inferred) ==
    [keys |-> keys,
     metadata |-> md,
     sensor_values |-> <<>>,
     timestamps |-> None,
     sample_rate |-> None,
     inferred_sensor_type |-> inferred,
     sensor_names |-> <<>>,
     extraction_error |-> None,
     extraction_warning |-> None,
     channel_read_errors |-> <<>>,
     raw_channel_names |-> <<>>,
     channel_properties |-> <<>>,
     all_channel_properties_raw |-> <<>>]

\* extracted_info at the top of extract_data_from_mat
MatNewInfo(md) ==
    NewInfo(md,
            {"metadata", "sensor_values", "timestamps", "sample_rate", "inferred_sensor_type"},
            md.sensor_type)

\* an except clause that records nothing on the record
SetErrorDropped(info, msg) == info

\* extracted_info['extraction_error'] = msg
SetError(info, msg) ==
    [info EXCEPT !.extraction_error = Some(msg), !.keys = @ \cup {"extraction_error"}]

\* neither 'Signal' nor 'signal' is a key of the loaded file
MatNoMainKey(info) == None

\* the (1,1) object array holding a record with x_values and y_values is not there
MatNoMainRecord(info) == None

\* np.arange(n) * increment + start_value
ArangeTimes(n, increment, start_value) ==
    [i \in 1..n |-> (i - 1) * increment + start_value]

\* an 'x_values' section that sets the sample rate and leaves the time stamps
MatTimeInfoRateOnly(info, x) ==
    IF x.kind = "struct" /\ x.increment > 0 /\ x.number_of_values > 0
    THEN [info EXCEPT !.sample_rate = Some([num |-> 1, den |-> x.increment])]
    ELSE info

\* the 'x_values' section: the sample rate and the time stamps, when the three
\* scalars are there and increment and number_of_values are positive
MatTimeInfo(info, x) ==
    IF x.kind = "struct" /\ x.increment > 0 /\ x.number_of_values > 0
    THEN [info EXCEPT
            !.sample_rate = Some([num |-> 1, den |-> x.increment]),
            !.timestamps = Some(ArangeTimes(x.number_of_values, x.increment, x.start_value))]
    ELSE info

\* values_array_candidate is a numeric numpy array with at least one element
MatValuesUsable(y) == y.numeric /\ Size(y.shape) > 0

\* the shaping of the values array: "stored" with the shape to store, or
\* "raises" (line 315 names values_values_array_candidate, which is not
\* defined: a NameError for every 1-D array)
MatShapeValues(shape) ==
    IF NDim(shape) = 1 THEN [outcome |-> "raises", shape |-> shape]
    ELSE IF NDim(shape) > 2 THEN [outcome |-> "stored", shape |-> ReshapeColumn(shape)]
    ELSE [outcome |-> "stored", shape |-> shape]

\* the 'y_values' section
MatSensorValues(info, md, y) ==
    IF y.kind = "struct" /\ MatValuesUsable(y)
    THEN LET sensor_type_hint == md.sensor_type
             inferred == IF sensor_type_hint = Some(TypeVibration) THEN TypeVibrationStructured
                         ELSE IF sensor_type_hint = Some(TypeAcoustic) THEN TypeAcousticStructured
                         ELSE TypeMatStructuredUnknown
             sensor_name == IF sensor_type_hint = Some(TypeVibration) THEN TypeVibration \o SignalSuffix
                            ELSE IF sensor_type_hint = Some(TypeAcoustic) THEN TypeAcoustic \o SignalSuffix
                            ELSE Val(sensor_type_hint) \o SignalSuffix
             shaped == MatShapeValues(y.shape)
             typed == [info EXCEPT !.inferred_sensor_type = Some(inferred)]
         IN IF shaped.outcome = "raises"
            THEN [typed EXCEPT !.sensor_values = <<>>]
            ELSE [typed EXCEPT !.sensor_values = DictPut(@, sensor_name, shaped.shape)]
    ELSE [info EXCEPT !.sensor_values = <<>>]

RECURSIVE SumSeq(_)
SumSeq(s) == IF s = <<>> THEN 0 ELSE Head(s) + SumSeq(Tail(s))

\* time_diffs[time_diffs > 0] of np.diff(timestamps)
PositiveDiffs(ts) ==
    LET diffs == [i \in 1..(Len(ts) - 1) |-> ts[i + 1] - ts[i]]
    IN SelectSeq(diffs, LAMBDA d : d > 0)

\* the two fallbacks after both sections
MatFallbacks(info) ==
    IF /\ IsNone(info.timestamps)
       /\ ~IsNone(info.sample_rate)
       /\ info.sensor_values # <<>>
       /\ AnyNonEmpty(info.sensor_values)
    THEN LET first == CHOOSE i \in DOMAIN info.sensor_values :
                        /\ Size(info.sensor_values[i].v) > 0
                        /\ \A h \in 1..(i - 1) : Size(info.sensor_values[h].v) = 0
             num_samples == info.sensor_values[first].v[1]
             rate == Val(info.sample_rate)
         IN [info EXCEPT !.timestamps =
                Some([i \in 1..num_samples |-> ((i - 1) * rate.den) \div rate.num])]
    ELSE IF /\ IsNone(info.sample_rate)
            /\ ~IsNone(info.timestamps)
            /\ Len(Val(info.timestamps)) > 1
            /\ info.sensor_values # <<>>
            /\ AnyNonEmpty(info.sensor_values)
    THEN LET positive_diffs == PositiveDiffs(Val(info.timestamps))
         IN IF Len(positive_diffs) > 0
            THEN [info EXCEPT !.sample_rate =
                    Some([num |-> Len(positive_diffs), den |-> SumSeq(positive_diffs)])]
            ELSE info
    ELSE info

\* the final check: sensor_names, and the error reason of a record without data
MatFinish(info) ==
    LET named == [info EXCEPT !.sensor_names = NonEmptyNames(info.sensor_values),
                              !.keys = @ \cup {"sensor_names"}]
    IN IF named.sensor_values = <<>> \/ named.sensor_names = <<>>
       THEN IF IsNone(named.extraction_error)
            THEN SetError(named, "No non-empty sensor values extracted.")
            ELSE named
       ELSE named

\* extract_data_from_mat(filepath, metadata): None or the info dictionary.
\* `content` is what sio.loadmat finds at filepath.
extract_data_from_mat(content, md) ==
    IF content.open = "not_found" THEN Some(SetError(MatNewInfo(md), "File not found."))
    ELSE IF content.open = "error" THEN Some(SetError(MatNewInfo(md), "Unhandled error"))
    ELSE IF content.key = "none" THEN MatNoMainKey(MatNewInfo(md))
    ELSE IF content.record # "ok" THEN MatNoMainRecord(MatNewInfo(md))
    ELSE Some(MatFinish(MatFallbacks(
                MatSensorValues(MatTimeInfo(MatNewInfo(md), content.x), md, content.y))))

-----------------------------------------------------------------------------
(* extract_data_from_tdms                                                  *)

TDMS_GROUP_NAME == "Log"

Mod1Ai0 == <<"c","D","A","Q","9","1","8","5","-","1","F","4","8","6","B","5","M","o","d","1","/","a","i","0">>
Mod1Ai1 == <<"c","D","A","Q","9","1","8","5","-","1","F","4","8","6","B","5","M","o","d","1","/","a","i","1">>
Mod2Ai0 == <<"c","D","A","Q","9","1","8","5","-","1","F","4","8","6","B","5","M","o","d","2","/","a","i","0">>
Mod2Ai2 == <<"c","D","A","Q","9","1","8","5","-","1","F","4","8","6","B","5","M","o","d","2","/","a","i","2">>
Mod2Ai3 == <<"c","D","A","Q","9","1","8","5","-","1","F","4","8","6","B","5","M","o","d","2","/","a","i","3">>

TDMS_CHANNEL_NAMES == <<Mod1Ai0, Mod1Ai1, Mod2Ai0, Mod2Ai2, Mod2Ai3>>

KeyWfIncrement == <<"w","f","_","i","n","c","r","e","m","e","n","t">>
KeyChannelType == <<"D","A","C","~","C","h","a","n","n","e","l","~","T","y","p","e">>
KeyWfStartOffset == <<"w","f","_","s","t","a","r","t","_","o","f","f","s","e","t">>
TemperaturePrefix == <<"T","e","m","p","e","r","a","t","u","r","e","_">>
CurrentPrefix == <<"C","u","r","r","e","n","t","_">>
TypeTempCurrentTdms == <<"T","e","m","p","_","C","u","r","r","e","n","t"," ","(","T","D","M","S",")">>

\* A property value: a number, None, a string that float() parses to n, or
\* any other string.
PNum(n) == [t |-> "num", n |-> n, s |-> ""]
PNone == [t |-> "none", n |-> 0, s |-> ""]
PNumStr(n) == [t |-> "numstr", n |-> n, s |-> ""]
PStr(s) == [t |-> "str", n |-> 0, s |-> s]

\* str(n) for n >= 0
RECURSIVE IntToStr(_)
IntToStr(n) ==
    IF n < 10 THEN <<DigitChars[n + 1]>>
    ELSE IntToStr(n \div 10) \o <<DigitChars[(n % 10) + 1]>>

\* extracted_info at the top of extract_data_from_tdms
TdmsNewInfo(md) ==
    NewInfo(md,
            {"metadata", "sensor_values", "raw_channel_names", "channel_properties",
             "all_channel_properties_raw", "timestamps", "sample_rate", "inferred_sensor_type"},
            Some(TypeTempCurrentTdms))

\* the group-not-found path ending as the missing-key path of the .mat
\* extractor does, with return None
TdmsGroupNotFoundReturningNone(info) == None

\* the configured group is not in the file
TdmsGroupNotFound(info) == Some(SetError(info, "Group 'Log' not found."))

\* no configured channel is in the group
TdmsNoConfiguredChannels(info) ==
    Some([info EXCEPT !.extraction_warning = Some("Configured channels not found in group."),
                      !.keys = @ \cup {"extraction_warning"}])

\* First pass over the channels of the group, from the state acc =
\* [props, rate, found, raised]: the properties of every configured channel,
\* the first valid wf_increment as sample rate.  Comparing a string
\* wf_increment with 0 raises TypeError outside every inner try.
RECURSIVE TdmsFirstPass(_, _, _)
TdmsFirstPass(channels, tdms_channel_names, acc) ==
    IF channels = <<>> \/ acc.raised THEN acc
    ELSE LET channel_obj == Head(channels) IN
         IF channel_obj.name \notin Range(tdms_channel_names)
         THEN TdmsFirstPass(Tail(channels), tdms_channel_names, acc)
         ELSE LET stored == [acc EXCEPT
                                !.found = Append(@, channel_obj),
                                !.props = DictPut(@, channel_obj.name, channel_obj.properties)]
                  has == DictHas(channel_obj.properties, KeyWfIncrement)
                  inc == DictGet(channel_obj.properties, KeyWfIncrement)
              IN IF ~IsNone(acc.rate) \/ ~has THEN TdmsFirstPass(Tail(channels), tdms_channel_names, stored)
                 ELSE IF inc.t = "none" THEN TdmsFirstPass(Tail(channels), tdms_channel_names, stored)
                 ELSE IF inc.t \in {"str", "numstr"}
                      THEN [stored EXCEPT !.raised = TRUE]
                 ELSE IF inc.n > 0
                      THEN TdmsFirstPass(Tail(channels), tdms_channel_names,
                              [stored EXCEPT !.rate = Some([num |-> 1, den |-> inc.n])])
                 ELSE TdmsFirstPass(Tail(channels), tdms_channel_names, stored)

\* the second pass without its size check: every array read is kept
TdmsKeepsDataOfAnySize(data) == data.kind = "array"

\* whether the data read for a channel goes into channel_datas
TdmsKeepsData(data) == data.kind = "array" /\ Size(data.shape) > 0

\* Second pass over the configured channels found, from the state acc =
\* [datas, raw_names, errors, has_errors]
RECURSIVE TdmsSecondPass(_, _)
TdmsSecondPass(found, acc) ==
    IF found = <<>> THEN acc
    ELSE LET channel_obj == Head(found) IN
         TdmsSecondPass(Tail(found),
            IF channel_obj.data.kind = "raises"
            THEN [acc EXCEPT !.errors = DictPut(@, channel_obj.name, "read error"),
                             !.has_errors = TRUE]
            ELSE IF TdmsKeepsData(channel_obj.data)
            THEN [acc EXCEPT !.datas = DictPut(@, channel_obj.name, channel_obj.data.shape),
                             !.raw_names = Append(@, channel_obj.name)]
            ELSE acc)

\* a naming loop that stores the array as it was read
TdmsShapeAsRead(shape) == shape

\* the shape a channel's data is stored with
TdmsShape(shape) ==
    IF NDim(shape) = 1 THEN ReshapeColumn(shape)
    ELSE IF NDim(shape) > 2 THEN ReshapeColumn(shape)
    ELSE shape

\* the name a channel's data is stored under
TdmsDescriptiveName(raw_channel_name, channel_type, temp_count, current_count, processed) ==
    LET named == IF channel_type = PStr("Temperature") THEN TemperaturePrefix \o IntToStr(temp_count)
                 ELSE IF channel_type = PStr("Current") THEN CurrentPrefix \o IntToStr(current_count)
                 ELSE raw_channel_name
    IN IF named \in Range(processed)
       THEN named \o <<"_">> \o StrReplace(StrReplace(raw_channel_name, "/", <<"_">>), "~", <<"_">>)
       ELSE named

\* The naming loop over channel_datas, from the state acc =
\* [values, props, temp_count, current_count, processed]
RECURSIVE TdmsNaming(_, _, _)
TdmsNaming(datas, props_raw, acc) ==
    IF datas = <<>> THEN acc
    ELSE LET raw_channel_name == Head(datas).k
             channel_properties_raw == IF DictHas(props_raw, raw_channel_name)
                                       THEN DictGet(props_raw, raw_channel_name) ELSE <<>>
             channel_type == IF DictHas(channel_properties_raw, KeyChannelType)
                             THEN DictGet(channel_properties_raw, KeyChannelType) ELSE PNone
             temp_count == IF channel_type = PStr("Temperature")
                           THEN acc.temp_count + 1 ELSE acc.temp_count
             current_count == IF channel_type = PStr("Current")
                              THEN acc.current_count + 1 ELSE acc.current_count
             descriptive_name == TdmsDescriptiveName(raw_channel_name, channel_type,
                                                     temp_count, current_count, acc.processed)
         IN TdmsNaming(Tail(datas), props_raw,
               [values |-> DictPut(acc.values, descriptive_name, TdmsShape(Head(datas).v)),
                props |-> DictPut(acc.props, descriptive_name, channel_properties_raw),
                temp_count |-> temp_count,
                current_count |-> current_count,
                processed |-> Append(acc.processed, descriptive_name)])

\* time stamps that always start at 0.0
TdmsStartOffsetZero(info) == 0

\* float(raw_props_for_offset.get('wf_start_offset', 0.0)), 0.0 when that raises
TdmsStartOffset(info) ==
    IF info.raw_channel_names = <<>> THEN 0
    ELSE LET first_raw_name_with_data == info.raw_channel_names[1]
             raw_props == IF DictHas(info.all_channel_properties_raw, first_raw_name_with_data)
                          THEN DictGet(info.all_channel_properties_raw, first_raw_name_with_data)
                          ELSE <<>>
         IN IF ~DictHas(raw_props, KeyWfStartOffset) THEN 0
            ELSE LET start_offset == DictGet(raw_props, KeyWfStartOffset)
                 IN IF start_offset.t \in {"num", "numstr"} THEN start_offset.n ELSE 0

\* the time stamps, from the sample rate and the length of the first channel
TdmsTimeInfo(info) ==
    IF /\ ~IsNone(info.sample_rate)
       /\ IsNone(info.timestamps)
       /\ info.sensor_values # <<>>
       /\ AnyNonEmpty(info.sensor_values)
    THEN LET first == CHOOSE i \in DOMAIN info.sensor_values :
                        /\ Size(info.sensor_values[i].v) > 0
                        /\ \A h \in 1..(i - 1) : Size(info.sensor_values[h].v) = 0
             num_samples == info.sensor_values[first].v[1]
             rate == Val(info.sample_rate)
             start_offset == TdmsStartOffset(info)
         IN IF num_samples > 0
            THEN [info EXCEPT !.timestamps =
                    Some([i \in 1..num_samples |->
                            (i - 1) * (rate.den \div rate.num) + start_offset])]
            ELSE info
    ELSE info

\* extract_data_from_tdms(filepath, metadata, tdms_group_name, tdms_channel_names).
\* `content` is what TdmsFile.open finds at filepath.
extract_data_from_tdms(content, md, tdms_channel_names) ==
    IF content.open = "not_found" THEN Some(SetError(TdmsNewInfo(md), "File not found."))
    ELSE IF content.open = "error" THEN Some(SetError(TdmsNewInfo(md), "Unhandled error"))
    ELSE IF TDMS_GROUP_NAME \notin content.groups THEN TdmsGroupNotFound(TdmsNewInfo(md))
    ELSE LET first == TdmsFirstPass(content.channels, tdms_channel_names,
                        [props |-> <<>>, rate |-> None, found |-> <<>>, raised |-> FALSE])
             info1 == [TdmsNewInfo(md) EXCEPT !.all_channel_properties_raw = first.props]
         IN IF first.raised THEN Some(SetError(info1, "Unhandled error"))
            ELSE LET info2 == [info1 EXCEPT !.sample_rate = first.rate] IN
                 IF first.found = <<>> THEN TdmsNoConfiguredChannels(info2)
                 ELSE LET second == TdmsSecondPass(first.found,
                                      [datas |-> <<>>, raw_names |-> <<>>,
                                       errors |-> <<>>, has_errors |-> FALSE])
                          naming == TdmsNaming(second.datas, first.props,
                                      [values |-> <<>>, props |-> <<>>, temp_count |-> 0,
                                       current_count |-> 0, processed |-> <<>>])
                          info3 == [info2 EXCEPT
                                      !.raw_channel_names = second.raw_names,
                                      !.channel_read_errors = second.errors,
                                      !.keys = IF second.has_errors
                                               THEN @ \cup {"channel_read_errors"} ELSE @,
                                      !.sensor_values = naming.values,
                                      !.channel_properties = naming.props]
                          info4 == TdmsTimeInfo(info3)
                      IN Some([info4 EXCEPT
                                !.sensor_names = NonEmptyNames(info4.sensor_values),
                                !.keys = @ \cup {"sensor_names"}])

-----------------------------------------------------------------------------
(* The directory walk (the main extraction loop) and its summary           *)

BASE_DATASET_DIRECTORY == <<"/","h","o","m","e","/","d","a","n","g","t","u","a","n","/","p","r","o","j","e","c","t","s","/","m","u","l","t","i","a","g","e","n","t","-","m","a","i","n","t","e","n","a","n","c","e","/","p","r","o","j","e","c","t","_","d","a","t","a","s","e","t">>

ZoneIdentifierSuffix == <<":","Z","o","n","e",".","I","d","e","n","t","i","f","i","e","r">>

\* os.path.relpath(filepath, BASE_DATASET_DIRECTORY) of a file named `name`
\* in the directory `dir` below the base directory (<<>>: the base itself)
RelPath(dir, name) == IF dir = <<>> THEN name ELSE dir \o <<sep>> \o name

\* os.path.join(root, filename)
FullPath(dir, name) == BASE_DATASET_DIRECTORY \o <<sep>> \o RelPath(dir, name)

\* filename.startswith('.') or filename.endswith(':Zone.Identifier')
IsHiddenOrSystem(name) == StartsWith(name, <<".">>) \/ EndsWith(name, ZoneIdentifierSuffix)

\* the dispatch on metadata['extension']
ExtractFile(file, md) ==
    IF md.extension = ExtMat THEN extract_data_from_mat(file.mat, md)
    ELSE extract_data_from_tdms(file.tdms, md, TDMS_CHANNEL_NAMES)

\* extracted_info.get('sensor_values') and any(arr.size > 0 ...)
HasData(info) ==
    /\ "sensor_values" \in info.keys
    /\ info.sensor_values # <<>>
    /\ AnyNonEmpty(info.sensor_values)

\* One iteration of the walk: the file `file` is counted, classified and,
\* when relevant, extracted and recorded.
WalkFile(file) ==
    /\ phase = "walk"
    /\ RelPath(file.dir, file.name) \notin visited
    /\ relative_filepath' = RelPath(file.dir, file.name)
    /\ visited' = visited \cup {relative_filepath'}
    /\ total_files_in_directory' = total_files_in_directory + 1
    /\ filename' = file.name
    /\ file_content' = file
    /\ UNCHANGED <<phase, files_returning_none, saveVars, sanitized, csvVars>>
    /\ IF IsHiddenOrSystem(file.name)
       THEN /\ skipped_initial_files' = Append(skipped_initial_files, relative_filepath')
            /\ UNCHANGED <<metadata, extracted_info, relevant_files_attempted,
                           all_extracted_info, processed_with_data_files,
                           processed_metadata_only_files>>
       ELSE /\ metadata' = parse_filename(file.name, FullPath(file.dir, file.name))
            /\ IF IsNone(metadata') \/ Val(metadata').extension \notin {ExtMat, ExtTdms}
               THEN /\ skipped_initial_files' = Append(skipped_initial_files, relative_filepath')
                    /\ UNCHANGED <<extracted_info, relevant_files_attempted,
                                   all_extracted_info, processed_with_data_files,
                                   processed_metadata_only_files>>
               ELSE /\ relevant_files_attempted' = relevant_files_attempted + 1
                    /\ extracted_info' = ExtractFile(file, Val(metadata'))
                    /\ UNCHANGED skipped_initial_files
                    /\ IF ~IsNone(extracted_info')
                       THEN /\ all_extracted_info' =
                                    DictPut(all_extracted_info, relative_filepath',
                                            Val(extracted_info'))
                            /\ IF HasData(Val(extracted_info'))
                               THEN /\ processed_with_data_files' =
                                            Append(processed_with_data_files, relative_filepath')
                                    /\ UNCHANGED processed_metadata_only_files
                               ELSE /\ processed_metadata_only_files' =
                                            Append(processed_metadata_only_files,
                                                   relative_filepath')
                                    /\ UNCHANGED processed_with_data_files
                       ELSE UNCHANGED <<all_extracted_info, processed_with_data_files,
                                        processed_metadata_only_files>>

\* The walk is over: the summary computes files_returning_none.
Summary ==
    /\ phase = "walk"
    /\ phase' = "summary"
    /\ files_returning_none' = relevant_files_attempted
                                 - Len(processed_with_data_files)
                                 - Len(processed_metadata_only_files)
    /\ UNCHANGED <<sanitized, csvVars>>
    /\ UNCHANGED <<filename, relative_filepath, file_content, metadata, extracted_info,
                   visited, total_files_in_directory, relevant_files_attempted,
                   skipped_initial_files, all_extracted_info, processed_with_data_files,
                   processed_metadata_only_files, saveVars>>

-----------------------------------------------------------------------------
(* The HDF5 save loop                                                      *)

\* s.replace(a1, b1).replace(a2, b2)... for the rules <<<<a1, b1>>, ...>>
RECURSIVE ReplaceChain(_, _)
ReplaceChain(s, rules) ==
    IF rules = <<>> THEN s
    ELSE ReplaceChain(StrReplace(s, Head(rules)[1], Head(rules)[2]), Tail(rules))

US == <<"_">>

\* the replacements of line 934 (group names)
GroupNameRules ==
    << <<sep, <<"_","_">> >>, <<".", US>>, <<" ", US>>, <<"-", US>>, <<":", US>>,
       <<"[", <<>> >>, <<"]", <<>> >>, <<"<", US>>, <<">", US>>, <<"'", <<>> >>,
       <<"\"", <<>> >>, <<"~", US>> >>

\* the replacements of line 960 (metadata attribute keys)
AttrKeyRules ==
    << <<".", US>>, <<"~", US>>, <<" ", US>>, <<"-", US>>, <<":", US>>,
       <<"[", <<>> >>, <<"]", <<>> >> >>

\* the replacements of lines 1041, 1064, 1074 and 1118 (channel names,
\* property keys, dataset names)
ChannelNameRules ==
    << <<".", US>>, <<"/", US>>, <<"\\", US>>, <<" ", US>>, <<"-", US>>, <<":", US>>,
       <<"[", <<>> >>, <<"]", <<>> >>, <<"<", US>>, <<">", US>>, <<"'", <<>> >>,
       <<"\"", <<>> >>, <<"~", US>> >>

\* the prefix rule without its condition: the prefix goes in front of every name
EnsureLeadingAlways(name, prefix) == prefix \o LStrip(name, "_")

\* if not name or not name[0].isalnum(): name = prefix + name.lstrip('_')
EnsureLeading(name, prefix) ==
    IF name = <<>> \/ ~IsAlnumChar(name[1]) THEN prefix \o LStrip(name, "_") ELSE name

PrefixFile == <<"f","i","l","e","_">>
PrefixAttr == <<"a","t","t","r","_">>
PrefixSensor == <<"s","e","n","s","o","r","_">>
PrefixChan == <<"c","h","a","n","_">>
PrefixRawChan == <<"r","a","w","_","c","h","a","n","_">>
PrefixProp == <<"p","_">>

\* group_name of lines 934-936
GroupName(rel) == EnsureLeading(ReplaceChain(rel, GroupNameRules), PrefixFile)

\* attr_key of lines 960-961
AttrKey(key) == EnsureLeading(ReplaceChain(key, AttrKeyRules), PrefixAttr)

\* dataset_name of lines 1118-1119 and 1152
DatasetName(sensor_name) ==
    LET dataset_name == EnsureLeading(ReplaceChain(sensor_name, ChannelNameRules), PrefixSensor)
    IN IF StartsWith(dataset_name, <<".">>) THEN <<"_">> \o dataset_name ELSE dataset_name

\* chan_name_safe of lines 1041-1042
ChanNameSafe(chan_name) == EnsureLeading(ReplaceChain(chan_name, ChannelNameRules), PrefixChan)

\* channel_prop_group_name_raw of lines 1064-1065
ChannelPropGroupName(raw) == EnsureLeading(ReplaceChain(raw, ChannelNameRules), PrefixRawChan)

\* p_key_safe of lines 1074-1075
PropKeySafe(p_key) == EnsureLeading(ReplaceChain(p_key, ChannelNameRules), PrefixProp)

KeyFilename == <<"f","i","l","e","n","a","m","e">>
KeyLoad == <<"l","o","a","d">>
KeyCondition == <<"c","o","n","d","i","t","i","o","n">>
KeySeverity == <<"s","e","v","e","r","i","t","y">>
KeyExtension == <<"e","x","t","e","n","s","i","o","n">>
KeySensorType == <<"s","e","n","s","o","r","_","t","y","p","e">>
KeyFilepath == <<"f","i","l","e","p","a","t","h">>
KeyRelativeFilepath == <<"r","e","l","a","t","i","v","e","_","f","i","l","e","p","a","t","h">>
KeyRelativeFilepathStr == <<"r","e","l","a","t","i","v","e","_","f","i","l","e","p","a","t","h","_","s","t","r">>
KeyInferredSensorType == <<"i","n","f","e","r","r","e","d","_","s","e","n","s","o","r","_","t","y","p","e">>
KeyExtractionError == <<"e","x","t","r","a","c","t","i","o","n","_","e","r","r","o","r">>
KeyExtractionWarning == <<"e","x","t","r","a","c","t","i","o","n","_","w","a","r","n","i","n","g">>
KeySampleRate == <<"s","a","m","p","l","e","_","r","a","t","e">>
StrNone == <<"N","o","n","e">>

\* the metadata dictionary as a dict in insertion order
MetaDict(md) ==
    << [k |-> KeyFilename, v |-> md.filename],
       [k |-> KeyLoad, v |-> md.load],
       [k |-> KeyCondition, v |-> md.condition],
       [k |-> KeySeverity, v |-> md.severity],
       [k |-> KeyExtension, v |-> md.extension],
       [k |-> KeySensorType, v |-> IF IsNone(md.sensor_type) THEN StrNone ELSE Val(md.sensor_type)],
       [k |-> KeyFilepath, v |-> md.filepath] >>

\* del d[key]
DictDel(d, key) == SelectSeq(d, LAMBDA e : e.k # key)

\* meta_dict of lines 951-956: without 'filepath', with 'relative_filepath_str'
SavedMetaDict(md, rel) ==
    LET without == DictDel(MetaDict(md), KeyFilepath)
    IN IF ~DictHas(without, KeyRelativeFilepath)
       THEN DictPut(without, KeyRelativeFilepathStr, rel)
       ELSE without

\* attrs[AttrKey(k)] = v for every item of meta_dict
RECURSIVE PutAttrs(_, _)
PutAttrs(attrs, meta_dict) ==
    IF meta_dict = <<>> THEN attrs
    ELSE PutAttrs(DictPut(attrs, AttrKey(Head(meta_dict).k), Head(meta_dict).v),
                  Tail(meta_dict))

\* a group just created by f.create_group(group_name)
NewNode(group_name) ==
    [name |-> group_name,
     attrs |-> <<>>,
     channel_read_errors |-> None,
     all_channel_properties_raw |-> None,
     sensor_values |-> None,
     timestamps |-> None]

\* lines 949-1033: the metadata, the inferred type and the error and warning
\* reasons as attributes
SaveAttributes(node, data, rel) ==
    LET a1 == IF "metadata" \in data.keys
              THEN PutAttrs(node.attrs, SavedMetaDict(data.metadata, rel)) ELSE node.attrs
        a2 == IF "inferred_sensor_type" \in data.keys /\ ~IsNone(data.inferred_sensor_type)
              THEN DictPut(a1, KeyInferredSensorType, Val(data.inferred_sensor_type)) ELSE a1
        a3 == IF "extraction_error" \in data.keys
              THEN DictPut(a2, KeyExtractionError, Val(data.extraction_error)) ELSE a2
        a4 == IF "extraction_warning" \in data.keys
              THEN DictPut(a3, KeyExtractionWarning, Val(data.extraction_warning)) ELSE a3
    IN [node EXCEPT !.attrs = a4]

\* attrs[ChanNameSafe(chan)] = str(error) for every read error
RECURSIVE PutReadErrors(_, _)
PutReadErrors(attrs, errors) ==
    IF errors = <<>> THEN attrs
    ELSE PutReadErrors(DictPut(attrs, ChanNameSafe(Head(errors).k), Head(errors).v),
                       Tail(errors))

\* lines 1034-1048: the 'channel_read_errors' group
SaveReadErrors(node, data) ==
    IF "channel_read_errors" \in data.keys
    THEN [node EXCEPT !.channel_read_errors = Some(PutReadErrors(<<>>, data.channel_read_errors))]
    ELSE node

\* attrs[PropKeySafe(key)] = value for every property of one channel
RECURSIVE PutProps(_, _)
PutProps(attrs, props) ==
    IF props = <<>> THEN attrs
    ELSE PutProps(DictPut(attrs, PropKeySafe(Head(props).k), Head(props).v), Tail(props))

\* one sub-group of properties per raw channel name; a name already taken
\* makes create_group raise and the channel is skipped
RECURSIVE PutChannelProps(_, _)
PutChannelProps(groups, props_raw) ==
    IF props_raw = <<>> THEN groups
    ELSE LET name == ChannelPropGroupName(Head(props_raw).k)
         IN PutChannelProps(
                IF DictHas(groups, name) THEN groups
                ELSE DictPut(groups, name, PutProps(<<>>, Head(props_raw).v)),
                Tail(props_raw))

\* lines 1051-1099: the 'all_channel_properties_raw' group
SaveChannelProperties(node, data) ==
    IF "all_channel_properties_raw" \in data.keys /\ data.all_channel_properties_raw # <<>>
    THEN [node EXCEPT !.all_channel_properties_raw =
                        Some(PutChannelProps(<<>>, data.all_channel_properties_raw))]
    ELSE node

\* lines 1142-1147: a scalar becomes 1-D, more than two dimensions are
\* flattened to 1-D
SavableShape(shape) ==
    IF NDim(shape) = 0 THEN <<Size(shape)>>
    ELSE IF NDim(shape) > 2 THEN <<Size(shape)>>
    ELSE shape

\* one dataset per non-empty array; a dataset name already taken makes
\* create_dataset raise and the dataset is skipped
RECURSIVE PutDatasets(_, _)
PutDatasets(datasets, sensor_values) ==
    IF sensor_values = <<>> THEN datasets
    ELSE LET name == DatasetName(Head(sensor_values).k)
         IN PutDatasets(
                IF Size(Head(sensor_values).v) > 0 /\ ~DictHas(datasets, name)
                THEN DictPut(datasets, name, SavableShape(Head(sensor_values).v))
                ELSE datasets,
                Tail(sensor_values))

\* the guard of lines 1104-1106: the 'sensor_values' group is created
CreatesSensorsGroup(data) ==
    /\ "sensor_values" \in data.keys
    /\ data.sensor_values # <<>>
    /\ AnyNonEmpty(data.sensor_values)

\* lines 1107-1159: the 'sensor_values' group and its datasets
SaveSensorValues(node, data) ==
    IF CreatesSensorsGroup(data)
    THEN [node EXCEPT !.sensor_values = Some(PutDatasets(<<>>, data.sensor_values))]
    ELSE node

\* The name sensors_group is bound only by line 1107, and keeps its value
\* from one iteration of the loop to the next.
SensorsGroupAfter(sg, data, group_name) ==
    IF CreatesSensorsGroup(data) THEN [bound |-> TRUE, ref |-> Some(group_name)] ELSE sg

\* The condition of line 1166 with sensors_group as it is when the line is
\* reached: "raises" (NameError: sensors_group is not bound), "write" or "skip"
TimestampsGuard(data, sg) ==
    IF ~("timestamps" \in data.keys /\ ~IsNone(data.timestamps)) THEN "skip"
    ELSE IF ~sg.bound THEN "raises"
    ELSE IF ~IsNone(sg.ref) \/ (data.sensor_values # <<>> /\ AnyNonEmpty(data.sensor_values))
         THEN "write"
    ELSE "skip"

\* lines 1168-1179: the 'timestamps' dataset
SaveTimestamps(node, data) == [node EXCEPT !.timestamps = Some(Val(data.timestamps))]

\* lines 1183-1188: the 'sample_rate' attribute
SaveSampleRate(node, data) ==
    IF "sample_rate" \in data.keys /\ ~IsNone(data.sample_rate)
    THEN [node EXCEPT !.attrs = DictPut(@, KeySampleRate, Val(data.sample_rate))]
    ELSE node

\* with h5py.File(hdf5_output_path, 'w') as f:
OpenArchive ==
    /\ phase = "summary"
    /\ phase' = "write"
    /\ h5file' = <<>>
    /\ write_pos' = 0
    /\ UNCHANGED <<sanitized, csvVars>>
    /\ UNCHANGED <<filename, relative_filepath, file_content, metadata, extracted_info,
                   walkVars, sensors_group, save_error>>

\* One iteration of the save loop, for the next record of all_extracted_info.
SaveRecord ==
    /\ phase = "write"
    /\ write_pos < Len(all_extracted_info)
    /\ LET rel == all_extracted_info[write_pos + 1].k
           data == all_extracted_info[write_pos + 1].v
           group_name == GroupName(rel)
           with_attrs == SaveChannelProperties(
                           SaveReadErrors(
                             SaveAttributes(NewNode(group_name), data, rel), data), data)
           with_values == SaveSensorValues(with_attrs, data)
           sg == SensorsGroupAfter(sensors_group, data, group_name)
           guard == TimestampsGuard(data, sg)
       IN IF group_name = <<>> \/ (\E i \in DOMAIN h5file : h5file[i].name = group_name)
          THEN \* no name, or create_group raises: the record is skipped
               /\ write_pos' = write_pos + 1
               /\ UNCHANGED <<phase, h5file, sensors_group, save_error>>
          ELSE IF guard = "raises"
          THEN \* the NameError leaves the loop and the with block
               /\ h5file' = Append(h5file, with_values)
               /\ sensors_group' = sg
               /\ save_error' = TRUE
               /\ phase' = "done"
               /\ UNCHANGED write_pos
          ELSE /\ h5file' = Append(h5file,
                                SaveSampleRate(
                                  IF guard = "write" THEN SaveTimestamps(with_values, data)
                                  ELSE with_values, data))
               /\ sensors_group' = sg
               /\ write_pos' = write_pos + 1
               /\ UNCHANGED <<phase, save_error>>
    /\ UNCHANGED <<sanitized, csvVars>>
    /\ UNCHANGED <<filename, relative_filepath, file_content, metadata, extracted_info,
                   walkVars>>

\* The loop is over and the archive is closed.
CloseArchive ==
    /\ phase = "write"
    /\ write_pos = Len(all_extracted_info)
    /\ phase' = "done"
    /\ UNCHANGED <<sanitized, csvVars>>
    /\ UNCHANGED <<filename, relative_filepath, file_content, metadata, extracted_info,
                   walkVars, saveVars>>

\* the names the save loop derives from one string, site by site
SanitizedNames(s) ==
    [group_name |-> GroupName(s),
     attr_key |-> AttrKey(s),
     chan_name_safe |-> ChanNameSafe(s),
     channel_prop_group_name_raw |-> ChannelPropGroupName(s),
     p_key_safe |-> PropKeySafe(s),
     dataset_name |-> DatasetName(s)]

\* no name derived yet
NoNames ==
    [group_name |-> <<>>, attr_key |-> <<>>, chan_name_safe |-> <<>>,
     channel_prop_group_name_raw |-> <<>>, p_key_safe |-> <<>>, dataset_name |-> <<>>]

-----------------------------------------------------------------------------
(* The flattener: h5_to_csv.py                                             *)

OUTPUT_CSV_DIR == <<"e","x","t","r","a","c","t","e","d","_","c","s","v","_","d","a","t","a">>

ColTimestamp == <<"T","i","m","e","s","t","a","m","p">>
SuffixCh == <<"_","C","h">>
SuffixCsv == <<".","c","s","v">>
DoubleUnderscore == <<"_","_">>
UnderscoreMat == <<"_","m","a","t">>
DotMat == <<".","m","a","t">>
UnderscoreTdms == <<"_","t","d","m","s">>
DotTdms == <<".","t","d","m","s">>

\* the printable characters in the order of their code points (the grave
\* accent, which no name of the archive holds, is left out)
CodeOrder ==
    <<
       " ", "!", "\"", "#", "$", "%", "&", "'", "(", ")", "*", "+", ",", "-", ".", "/",
       "0", "1", "2", "3", "4", "5", "6", "7", "8", "9", ":", ";", "<", "=", ">", "?",
       "@", "A", "B", "C", "D", "E", "F", "G", "H", "I", "J", "K", "L", "M", "N", "O",
       "P", "Q", "R", "S", "T", "U", "V", "W", "X", "Y", "Z", "[", "\\", "]", "^", "_",
       "a", "b", "c", "d", "e", "f", "g", "h", "i", "j", "k", "l", "m", "n", "o",
       "p", "q", "r", "s", "t", "u", "v", "w", "x", "y", "z", "{", "|", "}", "~" >>

\* ord(c)
Ord(c) == CHOOSE i \in DOMAIN CodeOrder : CodeOrder[i] = c

\* a < b for two strings, as Python and HDF5 compare them
StrLess(a, b) ==
    \E i \in 1..(Len(a) + 1) :
        /\ i <= Len(b)
        /\ \A j \in 1..(i - 1) : a[j] = b[j]
        /\ (i = Len(a) + 1 \/ (a[i] # b[i] /\ Ord(a[i]) < Ord(b[i])))

\* the names of a group in the order h5py iterates them: by name (the
\* archive is written without track_order)
RECURSIVE SortKeys(_)
SortKeys(names) ==
    IF names = {} THEN <<>>
    ELSE LET first == CHOOSE n \in names : \A o \in names \ {n} : StrLess(n, o)
         IN <<first>> \o SortKeys(names \ {first})

\* f.keys()
GroupKeys(f) == SortKeys({f[i].name : i \in DOMAIN f})

\* f[group_name]
GroupNamed(f, group_name) == f[CHOOSE i \in DOMAIN f : f[i].name = group_name]

\* s.replace(sub, r) for a non-empty sub
RECURSIVE StrReplaceSub(_, _, _)
StrReplaceSub(s, sub, r) ==
    IF ~StrContains(s, sub) THEN s
    ELSE IF SubSeq(s, 1, Len(sub)) = sub
         THEN r \o StrReplaceSub(SubSeq(s, Len(sub) + 1, Len(s)), sub, r)
    ELSE <<Head(s)>> \o StrReplaceSub(Tail(s), sub, r)

\* s.split(os.sep)[-1]
RECURSIVE SplitLast(_)
SplitLast(s) ==
    IF \A i \in DOMAIN s : s[i] # sep THEN s
    ELSE SplitLast(Tail(s))

\* csv_filename of lines 104-106
CsvFilename(group_name) ==
    SplitLast(
        StrReplaceSub(
            StrReplaceSub(StrReplaceSub(group_name, DoubleUnderscore, <<sep>>),
                          UnderscoreMat, DotMat),
            UnderscoreTdms, DotTdms)
        \o SuffixCsv)

\* csv_filepath = os.path.join(OUTPUT_CSV_DIR, csv_filename)
CsvFilepath(group_name) == OUTPUT_CSV_DIR \o <<sep>> \o CsvFilename(group_name)

\* 'sensor_values' in group and isinstance(group['sensor_values'], h5py.Group)
HasSensorValuesGroup(group) == ~IsNone(group.sensor_values)

\* sensor_datasets of lines 46-50: the datasets with size > 0, by name
RECURSIVE SensorDatasetsOf(_, _)
SensorDatasetsOf(names, datasets) ==
    IF names = <<>> THEN <<>>
    ELSE (IF Size(DictGet(datasets, Head(names))) > 0
          THEN <<[k |-> Head(names), v |-> DictGet(datasets, Head(names))]>>
          ELSE <<>>)
         \o SensorDatasetsOf(Tail(names), datasets)

SensorDatasets(group) ==
    LET datasets == Val(group.sensor_values)
    IN SensorDatasetsOf(SortKeys({datasets[i].k : i \in DOMAIN datasets}), datasets)

\* timestamps_dataset of lines 53-55
TimestampsDataset(group) ==
    IF ~IsNone(group.timestamps) /\ Len(Val(group.timestamps)) > 0
    THEN group.timestamps ELSE None

\* a column of data_for_df: its length, where it comes from and, for the
\* time stamps, its values
Column(rows, dataset, ch, data) == [rows |-> rows, dataset |-> dataset, ch |-> ch, data |-> data]

\* data_for_df[f"{sensor_name}_Ch{i+1}"] = sensor_data_array[:, i] for i in range(shape[1])
RECURSIVE PutChannelColumns(_, _, _, _)
PutChannelColumns(data_for_df, sensor_name, shape, i) ==
    IF i >= shape[2] THEN data_for_df
    ELSE PutChannelColumns(
             DictPut(data_for_df, sensor_name \o SuffixCh \o IntToStr(i + 1),
                     Column(shape[1], sensor_name, i + 1, <<>>)),
             sensor_name, shape, i + 1)

\* lines 95-96: the keys that start with sensor_name are deleted
DelKeysStartingWith(data_for_df, sensor_name) ==
    SelectSeq(data_for_df, LAMBDA e : ~StartsWith(e.k, sensor_name))

\* the loop of lines 83-97 over sensor_datasets
RECURSIVE PutSensorColumns(_, _)
PutSensorColumns(data_for_df, sensor_datasets) ==
    IF sensor_datasets = <<>> THEN data_for_df
    ELSE LET sensor_name == Head(sensor_datasets).k
             shape == Head(sensor_datasets).v
         IN PutSensorColumns(
                IF NDim(shape) = 1
                THEN DictPut(data_for_df, sensor_name, Column(shape[1], sensor_name, 0, <<>>))
                ELSE IF NDim(shape) = 2
                THEN PutChannelColumns(data_for_df, sensor_name, shape, 0)
                ELSE DelKeysStartingWith(data_for_df, sensor_name),
                Tail(sensor_datasets))

\* data_for_df of lines 78-97
DataForDf(timestamps_array, sensor_datasets) ==
    PutSensorColumns(
        <<[k |-> ColTimestamp,
           v |-> Column(Len(timestamps_array), ColTimestamp, 0, timestamps_array)]>>,
        sensor_datasets)

\* pd.DataFrame(data_for_df) raises ValueError when the arrays do not have
\* the same length
DataFrameRaises(data_for_df) ==
    \E i, j \in DOMAIN data_for_df : data_for_df[i].v.rows # data_for_df[j].v.rows

\* df: the columns in the order of the dictionary, and the number of rows
DataFrame(data_for_df) ==
    [columns |-> data_for_df,
     rows |-> IF data_for_df = <<>> THEN 0 ELSE data_for_df[1].v.rows]

\* a loop whose except clause counts nothing when the table cannot be built
ConvertOutcomeUncounted(group) ==
    IF ~HasSensorValuesGroup(group) THEN "skipped"
    ELSE LET sensor_datasets == SensorDatasets(group)
             timestamps_dataset == TimestampsDataset(group)
         IN IF sensor_datasets = <<>> \/ IsNone(timestamps_dataset) THEN "skipped"
            \* first_sensor_array.shape[0] of a 0-dimensional array: IndexError
            ELSE IF NDim(sensor_datasets[1].v) = 0 THEN "error"
            ELSE IF Len(Val(timestamps_dataset)) # sensor_datasets[1].v[1] THEN "skipped"
            ELSE IF DataFrameRaises(DataForDf(Val(timestamps_dataset), sensor_datasets))
                 THEN "uncounted"
            ELSE "saved"

\* What lines 41-129 do with one group: "skipped" (lines 73, 124, 129),
\* "error" (line 119) or "saved" (lines 111-114)
ConvertOutcome(group) ==
    IF ~HasSensorValuesGroup(group) THEN "skipped"
    ELSE LET sensor_datasets == SensorDatasets(group)
             timestamps_dataset == TimestampsDataset(group)
         IN IF sensor_datasets = <<>> \/ IsNone(timestamps_dataset) THEN "skipped"
            \* first_sensor_array.shape[0] of a 0-dimensional array: IndexError
            ELSE IF NDim(sensor_datasets[1].v) = 0 THEN "error"
            ELSE IF Len(Val(timestamps_dataset)) # sensor_datasets[1].v[1] THEN "skipped"
            ELSE IF DataFrameRaises(DataForDf(Val(timestamps_dataset), sensor_datasets))
                 THEN "error"
            ELSE "saved"

\* with h5py.File(HDF5_FILE_PATH, 'r') as f:
OpenForRead ==
    /\ phase = "done"
    /\ phase' = "convert"
    /\ read_pos' = 0
    /\ UNCHANGED <<csv_files, processed_count, skipped_no_data_count, error_count>>
    /\ UNCHANGED <<filename, relative_filepath, file_content, metadata, extracted_info,
                   walkVars, saveVars, sanitized>>

\* One iteration of the loop of line 33, for the next name of f.keys().
ConvertGroup ==
    /\ phase = "convert"
    /\ read_pos < Len(h5file)
    /\ read_pos' = read_pos + 1
    /\ LET group_name == GroupKeys(h5file)[read_pos + 1]
           group == GroupNamed(h5file, group_name)
           outcome == ConvertOutcome(group)
       IN /\ csv_files' =
                IF outcome = "saved"
                THEN DictPut(csv_files, CsvFilepath(group_name),
                             DataFrame(DataForDf(Val(TimestampsDataset(group)),
                                                 SensorDatasets(group))))
                ELSE csv_files
          /\ processed_count' = processed_count + (IF outcome = "saved" THEN 1 ELSE 0)
          /\ skipped_no_data_count' =
                skipped_no_data_count + (IF outcome = "skipped" THEN 1 ELSE 0)
          /\ error_count' = error_count + (IF outcome = "error" THEN 1 ELSE 0)
    /\ UNCHANGED <<phase, filename, relative_filepath, file_content, metadata, extracted_info,
                   walkVars, saveVars, sanitized>>

\* The loop is over: the summary of lines 139-144.
ConvertEnd ==
    /\ phase = "convert"
    /\ read_pos = Len(h5file)
    /\ phase' = "converted"
    /\ UNCHANGED <<filename, relative_filepath, file_content, metadata, extracted_info,
                   walkVars, saveVars, sanitized, csvVars>>

\* processed_count = 0, skipped_no_data_count = 0, error_count = 0 and an
\* output directory without files
InitCounters ==
    /\ csv_files = <<>>
    /\ read_pos = 0
    /\ processed_count = 0
    /\ skipped_no_data_count = 0
    /\ error_count = 0

-----------------------------------------------------------------------------
(* The files the walk may meet                                             *)

XStruct(start_value, increment, number_of_values) ==
    [kind |-> "struct", start_value |-> start_value, increment |-> increment,
     number_of_values |-> number_of_values]
XBad(kind) == [kind |-> kind, start_value |-> 0, increment |-> 0, number_of_values |-> 0]
YStruct(numeric, shape) == [kind |-> "struct", numeric |-> numeric, shape |-> shape]
YBad(kind) == [kind |-> kind, numeric |-> FALSE, shape |-> <<0>>]
Mat(open, key, record, x, y) == [open |-> open, key |-> key, record |-> record, x |-> x, y |-> y]

XValid == XStruct(1, 2, 2)
YColumn == YStruct(TRUE, <<2, 1>>)

\* .mat files that load and hold the nested record
MatStructured ==
    {Mat("ok", key, "ok", x, y) :
        key \in {"Signal"},
        x \in {XValid, XStruct(0, 0, 2), XBad("bad_shape")},
        y \in {YColumn, YStruct(TRUE, <<2>>), YBad("bad_shape")}}
    \cup {Mat("ok", "signal", "ok", XValid, y) :
            y \in {YStruct(TRUE, <<3, 2>>), YStruct(TRUE, <<1, 2, 2>>), YStruct(TRUE, <<0>>),
                   YStruct(TRUE, <<3>>), YStruct(FALSE, <<2, 1>>), YBad("no_values")}}
    \cup {Mat("ok", "signal", "ok", x, YColumn) :
            x \in {XStruct(0, 1, 0), XBad("bad_fields"), XBad("bad_scalar")}}

\* .mat files that do not
MatBroken ==
    {Mat("not_found", "none", "bad", XBad("bad_shape"), YBad("bad_shape")),
     Mat("error", "none", "bad", XBad("bad_shape"), YBad("bad_shape")),
     Mat("ok", "none", "bad", XBad("bad_shape"), YBad("bad_shape")),
     Mat("ok", "Signal", "bad", XBad("bad_shape"), YBad("bad_shape"))}

MatContents == MatStructured \cup MatBroken

OtherAi1 == <<"c","D","A","Q","9","1","8","5","-","1","F","4","8","6","B","5","M","o","d","2","/","a","i","1">>

Chan(name, properties, kind, shape) ==
    [name |-> name, properties |-> properties, data |-> [kind |-> kind, shape |-> shape]]
Tdms(open, groups, channels) == [open |-> open, groups |-> groups, channels |-> channels]

PropsTemperature ==
    << [k |-> KeyWfIncrement, v |-> PNum(2)], [k |-> KeyChannelType, v |-> PStr("Temperature")],
       [k |-> KeyWfStartOffset, v |-> PNum(1)] >>
PropsCurrent == << [k |-> KeyChannelType, v |-> PStr("Current")] >>
PropsStringIncrement == << [k |-> KeyWfIncrement, v |-> PStr("fast")] >>
PropsNoneIncrement ==
    << [k |-> KeyWfIncrement, v |-> PNone], [k |-> KeyWfStartOffset, v |-> PStr("noon")] >>
PropsZeroIncrement == << [k |-> KeyWfIncrement, v |-> PNum(0)] >>

TdmsContents ==
    {Tdms("not_found", {}, <<>>),
     Tdms("error", {}, <<>>),
     Tdms("ok", {"Other"}, <<>>),
     Tdms("ok", {"Log"}, <<>>),
     Tdms("ok", {"Log", "Other"}, <<Chan(OtherAi1, PropsTemperature, "array", <<2>>)>>),
     Tdms("ok", {"Log"}, <<Chan(Mod1Ai0, PropsTemperature, "array", <<2>>)>>),
     Tdms("ok", {"Log"}, <<Chan(Mod1Ai0, PropsTemperature, "array", <<2>>),
                           Chan(Mod2Ai0, PropsCurrent, "array", <<2, 2>>)>>),
     Tdms("ok", {"Log"}, <<Chan(Mod1Ai0, PropsTemperature, "array", <<0>>)>>),
     Tdms("ok", {"Log"}, <<Chan(Mod1Ai0, PropsTemperature, "raises", <<0>>),
                           Chan(Mod1Ai1, PropsTemperature, "array", <<3>>)>>),
     Tdms("ok", {"Log"}, <<Chan(Mod1Ai0, PropsTemperature, "raises", <<0>>)>>),
     Tdms("ok", {"Log"}, <<Chan(Mod2Ai2, PropsCurrent, "array", <<2>>)>>),
     Tdms("ok", {"Log"}, <<Chan(Mod1Ai0, PropsStringIncrement, "array", <<2>>)>>),
     Tdms("ok", {"Log"}, <<Chan(Mod1Ai0, PropsStringIncrement, "raises", <<0>>),
                           Chan(Mod1Ai1, PropsTemperature, "array", <<3>>)>>),
     Tdms("ok", {"Log"}, <<Chan(Mod1Ai0, PropsNoneIncrement, "array", <<1, 2, 2>>),
                           Chan(Mod1Ai1, PropsTemperature, "array", <<0>>)>>),
     Tdms("ok", {"Log"}, <<Chan(Mod1Ai0, PropsZeroIncrement, "not_array", <<0>>)>>),
     Tdms("ok", {"Log"}, <<Chan(OtherAi1, PropsCurrent, "array", <<2>>),
                           Chan(Mod2Ai3, PropsTemperature, "array", <<2>>),
                           Chan(Mod2Ai2, PropsTemperature, "array", <<2>>)>>)}

NoMat == Mat("not_found", "none", "bad", XBad("bad_shape"), YBad("bad_shape"))
NoTdms == Tdms("not_found", {}, <<>>)

File(dir, name, mat, tdms) == [dir |-> dir, name |-> name, mat |-> mat, tdms |-> tdms]

NameMatDash == <<"0","N","m","_","A","-",".","m","a","t">>
NameMatUnderscore == <<"0","N","m","_","A","_",".","m","a","t">>
NameMatUpper == <<"0","N","m","_","B","_","0","3",".","M","A","T">>
NameTdms == <<"1","0","N","m","_","C","_","1",".","t","d","m","s">>
NameTdmsUpper == <<"1","0","n","m","_","C","-","1",".","T","D","M","S">>
NameHidden == <<".","0","N","m","_","A","_","1",".","m","a","t">>
NameZone == <<"0","N","m","_","A","_","1",".","m","a","t",":","Z","o","n","e",".","I","d","e","n","t","i","f","i","e","r">>
NameReadme == <<"r","e","a","d","m","e",".","t","x","t">>
NameNoCondition == <<"0","N","m",".","m","a","t">>

\* Every .mat content under one name, some contents under a second name of
\* the same directory, under an upper-case extension and outside the known
\* directories; every .tdms content under one name, some under a second.
Files ==
    {File(DirVibration, NameMatDash, m, NoTdms) : m \in MatContents}
    \cup {File(DirVibration, NameMatUnderscore, m, NoTdms) :
            m \in {Mat("ok", "Signal", "ok", XValid, YColumn),
                   Mat("ok", "Signal", "ok", XValid, YBad("bad_shape")),
                   Mat("ok", "none", "bad", XBad("bad_shape"), YBad("bad_shape"))}}
    \cup {File(TypeAcoustic, NameMatUpper, Mat("ok", "Signal", "ok", XValid, YColumn), NoTdms),
          File(<<>>, NameMatDash, Mat("ok", "Signal", "ok", XValid, YColumn), NoTdms)}
    \cup {File(DirCurrentTemp, NameTdms, NoMat, t) : t \in TdmsContents}
    \cup {File(DirCurrentTemp, NameTdmsUpper, NoMat, t) :
            t \in {Tdms("ok", {"Other"}, <<>>),
                   Tdms("ok", {"Log"}, <<Chan(Mod1Ai0, PropsTemperature, "array", <<2>>)>>),
                   Tdms("ok", {"Log"}, <<Chan(Mod1Ai0, PropsTemperature, "array", <<0>>)>>)}}
    \cup {File(DirVibration, n, NoMat, NoTdms) :
            n \in {NameHidden, NameZone, NameReadme, NameNoCondition}}

-----------------------------------------------------------------------------
(* The pipeline: the walk, its summary, the save loop                      *)

\* the most files the directory tree holds
MaxFiles == 2

Init ==
    /\ phase = "walk"
    /\ filename = <<>>
    /\ relative_filepath = <<>>
    /\ file_content = File(<<>>, <<>>, NoMat, NoTdms)
    /\ metadata = None
    /\ extracted_info = None
    /\ visited = {}
    /\ total_files_in_directory = 0
    /\ relevant_files_attempted = 0
    /\ skipped_initial_files = <<>>
    /\ all_extracted_info = <<>>
    /\ processed_with_data_files = <<>>
    /\ processed_metadata_only_files = <<>>
    /\ files_returning_none = 0
    /\ h5file = <<>>
    /\ write_pos = 0
    /\ sensors_group = [bound |-> FALSE, ref |-> None]
    /\ save_error = FALSE
    /\ sanitized = NoNames
    /\ InitCounters

Walk == \E file \in Files : Cardinality(visited) < MaxFiles /\ WalkFile(file)

Next ==
    \/ Walk
    \/ Summary
    \/ OpenArchive
    \/ SaveRecord
    \/ CloseArchive
    \/ OpenForRead
    \/ ConvertGroup
    \/ ConvertEnd

Spec == Init /\ [][Next]_vars

-----------------------------------------------------------------------------
(* parse_filename on its own: every name built from the parts below       *)

ParseLoads ==
    {<<"0","N","m">>, <<"1","2","N","m">>, <<"0","n","m">>, <<"N","m">>, <<"0","N">>}
ParseConditions == {<<"A">>, <<"B","P">>, <<"A",".","b">>, <<>>}
ParseSeparators == {<<>>, <<"_">>}
ParseSeverities ==
    {<<>>, <<"0","3">>, NoSeverity, <<"_","x">>, <<"a",".","b">>, <<"1","-","2">>}
ParseExtensions ==
    {<<"m","a","t">>, <<"M","A","T">>, <<"t","d","m","s">>, <<"T","d","m","s">>, <<"t","x","t">>}
ParseDirs ==
    {<<>>, DirVibration, TypeAcoustic, DirCurrentTemp,
     DirVibration \o <<sep>> \o DirAcoustic,
     DirCurrentTemp \o <<sep>> \o DirVibration,
     DirAcoustic \o <<"s">>}

ParseNames ==
    {l \o <<"_">> \o c \o u \o s \o <<".">> \o e :
        l \in ParseLoads, c \in ParseConditions, u \in ParseSeparators,
        s \in ParseSeverities, e \in ParseExtensions}
    \cup {NameReadme, NameNoCondition, NameHidden}

InitParse ==
    /\ phase = "parse"
    /\ filename \in ParseNames
    /\ \E dir \in ParseDirs : relative_filepath = RelPath(dir, filename)
    /\ file_content = File(<<>>, <<>>, NoMat, NoTdms)
    /\ metadata = None
    /\ extracted_info = None
    /\ visited = {}
    /\ total_files_in_directory = 0
    /\ relevant_files_attempted = 0
    /\ skipped_initial_files = <<>>
    /\ all_extracted_info = <<>>
    /\ processed_with_data_files = <<>>
    /\ processed_metadata_only_files = <<>>
    /\ files_returning_none = 0
    /\ h5file = <<>>
    /\ write_pos = 0
    /\ sensors_group = [bound |-> FALSE, ref |-> None]
    /\ save_error = FALSE
    /\ sanitized = NoNames
    /\ InitCounters

\* metadata = parse_filename(filename, filepath)
Parse ==
    /\ phase = "parse"
    /\ phase' = "parsed"
    /\ metadata' = parse_filename(filename, BASE_DATASET_DIRECTORY \o <<sep>> \o relative_filepath)
    /\ UNCHANGED <<filename, relative_filepath, file_content, extracted_info, walkVars, saveVars,
                   sanitized, csvVars>>

NextParse == Parse

SpecParse == InitParse /\ [][NextParse]_vars

-----------------------------------------------------------------------------
(* The writer's name sanitizers over generated strings                     *)

\* the longest string handed to the sanitizers
MaxNameLen == 3

NameChars == {"a", "1", "_", ".", "/", "<", "["}

RECURSIVE NameStrings(_)
NameStrings(n) ==
    IF n = 0 THEN {<<>>}
    ELSE NameStrings(n - 1)
         \cup {Append(s, c) : s \in {t \in NameStrings(n - 1) : Len(t) = n - 1}, c \in NameChars}

InitNames ==
    /\ phase = "name"
    /\ filename \in NameStrings(MaxNameLen)
    /\ relative_filepath = <<>>
    /\ file_content = File(<<>>, <<>>, NoMat, NoTdms)
    /\ metadata = None
    /\ extracted_info = None
    /\ visited = {}
    /\ total_files_in_directory = 0
    /\ relevant_files_attempted = 0
    /\ skipped_initial_files = <<>>
    /\ all_extracted_info = <<>>
    /\ processed_with_data_files = <<>>
    /\ processed_metadata_only_files = <<>>
    /\ files_returning_none = 0
    /\ h5file = <<>>
    /\ write_pos = 0
    /\ sensors_group = [bound |-> FALSE, ref |-> None]
    /\ save_error = FALSE
    /\ sanitized = NoNames
    /\ InitCounters

\* the sanitizers of the save loop applied to `filename`
Sanitize ==
    /\ phase = "name"
    /\ phase' = "named"
    /\ sanitized' = SanitizedNames(filename)
    /\ UNCHANGED <<filename, relative_filepath, file_content, metadata, extracted_info,
                   walkVars, saveVars, csvVars>>

NextNames == Sanitize

SpecNames == InitNames /\ [][NextNames]_vars

-----------------------------------------------------------------------------
(* The flattener over generated archives                                   *)

\* the most top-level groups of a generated archive
MaxNodes == 2

NodeVibration == <<"v","i","b","r","a","t","i","o","n","_","_","0","N","m","_","A","_","1","_","m","a","t">>
NodeAcoustic == <<"a","c","o","u","s","t","i","c","_","_","0","N","m","_","A","_","1","_","m","a","t">>
NodeRoot == <<"0","N","m","_","A","_","1","_","m","a","t">>
NodeNames == {NodeVibration, NodeAcoustic, NodeRoot}

DsVibration == <<"V","i","b","r","a","t","i","o","n","_","S","i","g","n","a","l">>
DsA == <<"A">>
DsB == <<"B">>
Ds(name, shape) == [k |-> name, v |-> shape]

\* what a top-level group may hold: <<sensor_values, timestamps>>
NodeContents ==
    {<<None, None>>,
     <<None, Some(<<0, 1>>)>>,
     <<Some(<<>>), Some(<<0, 1>>)>>,
     <<Some(<<Ds(DsA, <<0>>)>>), Some(<<0, 1>>)>>,
     <<Some(<<Ds(DsVibration, <<2, 1>>)>>), Some(<<0, 1>>)>>,
     <<Some(<<Ds(DsVibration, <<2, 1>>)>>), None>>,
     <<Some(<<Ds(DsVibration, <<2, 1>>)>>), Some(<<>>)>>,
     <<Some(<<Ds(DsVibration, <<2, 1>>)>>), Some(<<0, 1, 2>>)>>,
     <<Some(<<Ds(DsB, <<3>>), Ds(DsA, <<2>>)>>), Some(<<0, 1>>)>>,
     <<Some(<<Ds(DsA, <<>>)>>), Some(<<0, 1>>)>>,
     <<Some(<<Ds(DsA, <<2, 1, 1>>)>>), Some(<<0, 1>>)>>,
     <<Some(<<Ds(DsA, <<2, 2>>), Ds(DsB, <<2>>)>>), Some(<<0, 1>>)>>}

NodePool ==
    {[NewNode(name) EXCEPT !.sensor_values = c[1], !.timestamps = c[2]] :
        name \in NodeNames, c \in NodeContents}

\* the archives of at most n groups, no name twice
RECURSIVE Archives(_)
Archives(n) ==
    IF n = 0 THEN {<<>>}
    ELSE Archives(n - 1)
         \cup {Append(f, node) :
                 f \in {g \in Archives(n - 1) : Len(g) = n - 1},
                 node \in NodePool}

InitFlatten ==
    /\ phase = "done"
    /\ h5file \in {f \in Archives(MaxNodes) :
                     \A i, j \in DOMAIN f : i # j => f[i].name # f[j].name}
    /\ filename = <<>>
    /\ relative_filepath = <<>>
    /\ file_content = File(<<>>, <<>>, NoMat, NoTdms)
    /\ metadata = None
    /\ extracted_info = None
    /\ visited = {}
    /\ total_files_in_directory = 0
    /\ relevant_files_attempted = 0
    /\ skipped_initial_files = <<>>
    /\ all_extracted_info = <<>>
    /\ processed_with_data_files = <<>>
    /\ processed_metadata_only_files = <<>>
    /\ files_returning_none = 0
    /\ write_pos = 0
    /\ sensors_group = [bound |-> FALSE, ref |-> None]
    /\ save_error = FALSE
    /\ sanitized = NoNames
    /\ InitCounters

NextFlatten == OpenForRead \/ ConvertGroup \/ ConvertEnd

SpecFlatten == InitFlatten /\ [][NextFlatten]_vars

-----------------------------------------------------------------------------
(* extract_data_from_tdms under another allow-list, over generated groups   *)

\* the most channels a generated group holds
MaxChannels == 3

RawX == <<"X">>
RawTemperature1 == <<"T","e","m","p","e","r","a","t","u","r","e","_","1">>
RawTemperature1X == <<"T","e","m","p","e","r","a","t","u","r","e","_","1","_","X">>

\* the tdms_channel_names handed to extract_data_from_tdms in these runs
OtherChannelNames == <<RawX, RawTemperature1, RawTemperature1X>>

\* a channel without properties or with those of a temperature channel,
\* read as 2 or as 3 samples
ChannelPool ==
    {Chan(name, properties, "array", shape) :
        name \in Range(OtherChannelNames),
        properties \in {<<>>, PropsTemperature},
        shape \in {<<2>>, <<3>>}}

\* the channel lists of at most n channels, no name twice
RECURSIVE ChannelLists(_)
ChannelLists(n) ==
    IF n = 0 THEN {<<>>}
    ELSE ChannelLists(n - 1)
         \cup {Append(l, ch) :
                 l \in {g \in ChannelLists(n - 1) : Len(g) = n - 1},
                 ch \in ChannelPool}

InitChannels ==
    /\ phase = "tdms"
    /\ filename = NameTdms
    /\ relative_filepath = RelPath(DirCurrentTemp, NameTdms)
    /\ \E channels \in {l \in ChannelLists(MaxChannels) :
                           \A i, j \in DOMAIN l : i # j => l[i].name # l[j].name} :
          file_content = File(DirCurrentTemp, NameTdms, NoMat,
                              Tdms("ok", {TDMS_GROUP_NAME}, channels))
    /\ metadata = parse_filename(NameTdms, FullPath(DirCurrentTemp, NameTdms))
    /\ extracted_info = None
    /\ visited = {}
    /\ total_files_in_directory = 0
    /\ relevant_files_attempted = 0
    /\ skipped_initial_files = <<>>
    /\ all_extracted_info = <<>>
    /\ processed_with_data_files = <<>>
    /\ processed_metadata_only_files = <<>>
    /\ files_returning_none = 0
    /\ h5file = <<>>
    /\ write_pos = 0
    /\ sensors_group = [bound |-> FALSE, ref |-> None]
    /\ save_error = FALSE
    /\ sanitized = NoNames
    /\ InitCounters

\* extracted_info = extract_data_from_tdms(filepath, metadata, TDMS_GROUP_NAME, names)
ExtractTdms ==
    /\ phase = "tdms"
    /\ phase' = "extracted"
    /\ extracted_info' = extract_data_from_tdms(file_content.tdms, Val(metadata), OtherChannelNames)
    /\ UNCHANGED <<filename, relative_filepath, file_content, metadata, walkVars, saveVars,
                   sanitized, csvVars>>

NextChannels == ExtractTdms

SpecChannels == InitChannels /\ [][NextChannels]_vars

-----------------------------------------------------------------------------
(* Claims                                                                  *)

\* The last iteration of the walk handed its file to an extractor: the file
\* is not hidden and its name parsed, so metadata and extracted_info are
\* that iteration's.
Attempted ==
    /\ phase = "walk"
    /\ filename # <<>>
    /\ ~IsHiddenOrSystem(filename)
    /\ ~IsNone(metadata)

AttemptedMat == Attempted /\ Val(metadata).extension = ExtMat
AttemptedTdms == Attempted /\ Val(metadata).extension = ExtTdms

\* the group holds a channel of the allow-list
HasConfiguredChannel(tdms) ==
    \E i \in DOMAIN tdms.channels : tdms.channels[i].name \in Range(TDMS_CHANNEL_NAMES)

\* C1: for every .mat file that opens, extract_data_from_mat returns a
\* record and never None, also when neither 'Signal' nor 'signal' is a key or
\* the wrapped record with x_values and y_values is not found; the record
\* then has its error field set and no channel.
C1_MatAlwaysReturnsRecord ==
    (AttemptedMat /\ file_content.mat.open = "ok") =>
        /\ ~IsNone(extracted_info)
        /\ (file_content.mat.key = "none" \/ file_content.mat.record # "ok") =>
              /\ ~IsNone(Val(extracted_info).extraction_error)
              /\ Val(extracted_info).sensor_values = <<>>

\* C2: after the walk every file that matched the grammar has produced
\* exactly one record: relevant_files_attempted is the number of entries of
\* all_extracted_info and the sum of the two outcome lists, and
\* files_returning_none is 0.
C2_OneRecordPerAttemptedFile ==
    phase \in {"summary", "write", "done"} =>
        /\ relevant_files_attempted = Len(all_extracted_info)
        /\ relevant_files_attempted =
              Len(processed_with_data_files) + Len(processed_metadata_only_files)
        /\ files_returning_none = 0

\* C3: extract_data_from_tdms returns a record for every file that opens:
\* with extraction_error and no channel when the configured group is absent,
\* with extraction_warning, no channel and no time stamps when the group
\* holds no channel of the allow-list.
C3_TdmsSoftFailuresReturnRecord ==
    (AttemptedTdms /\ file_content.tdms.open = "ok") =>
        /\ ~IsNone(extracted_info)
        /\ TDMS_GROUP_NAME \notin file_content.tdms.groups =>
              /\ ~IsNone(Val(extracted_info).extraction_error)
              /\ Val(extracted_info).sensor_values = <<>>
        /\ (TDMS_GROUP_NAME \in file_content.tdms.groups
              /\ ~HasConfiguredChannel(file_content.tdms)) =>
              /\ ~IsNone(Val(extracted_info).extraction_warning)
              /\ IsNone(Val(extracted_info).extraction_error)
              /\ Val(extracted_info).sensor_values = <<>>
              /\ IsNone(Val(extracted_info).timestamps)

\* a file without the group was extracted before, and the file just
\* extracted has the group but no channel of the allow-list
C3_Witness ==
    /\ AttemptedTdms
    /\ file_content.tdms.open = "ok"
    /\ TDMS_GROUP_NAME \in file_content.tdms.groups
    /\ file_content.tdms.channels # <<>>
    /\ ~HasConfiguredChannel(file_content.tdms)
    /\ ~IsNone(extracted_info)
    /\ Val(extracted_info).extraction_warning = Some("Configured channels not found in group.")
    /\ \E i \in DOMAIN all_extracted_info :
          all_extracted_info[i].v.extraction_error = Some("Group 'Log' not found.")

\* every array of the channel mapping has at least one element
OnlyNonEmptyArrays(info) ==
    \A i \in DOMAIN info.sensor_values : Size(info.sensor_values[i].v) > 0

\* C4: in every record either extractor returns, on every return path, the
\* channel mapping holds only arrays with at least one element.
C4_NoEmptyArrayStored ==
    /\ ~IsNone(extracted_info) => OnlyNonEmptyArrays(Val(extracted_info))
    /\ \A i \in DOMAIN all_extracted_info : OnlyNonEmptyArrays(all_extracted_info[i].v)

\* a .mat file with an empty values array was extracted before, and the
\* .tdms file just extracted had a channel that read empty next to one that
\* did not
C4_Witness ==
    /\ AttemptedTdms
    /\ ~IsNone(extracted_info)
    /\ Val(extracted_info).sensor_values # <<>>
    /\ \E i \in DOMAIN file_content.tdms.channels :
          /\ file_content.tdms.channels[i].name \in Range(TDMS_CHANNEL_NAMES)
          /\ file_content.tdms.channels[i].data.kind = "array"
          /\ Size(file_content.tdms.channels[i].data.shape) = 0
    /\ \E i \in DOMAIN all_extracted_info :
          /\ all_extracted_info[i].v.metadata.extension = ExtMat
          /\ all_extracted_info[i].v.extraction_error =
                Some("No non-empty sensor values extracted.")

\* the record carries a diagnostic field
HasDiagnostic(info) ==
    \/ "extraction_error" \in info.keys
    \/ "extraction_warning" \in info.keys
    \/ "channel_read_errors" \in info.keys

\* C5: every record the main loop classifies as metadata-only carries at
\* least one diagnostic field (extraction_error, extraction_warning or
\* channel_read_errors), for both formats.
C5_MetadataOnlyHasDiagnostic ==
    \A i \in DOMAIN all_extracted_info :
        (\E j \in DOMAIN processed_metadata_only_files :
            processed_metadata_only_files[j] = all_extracted_info[i].k)
        => HasDiagnostic(all_extracted_info[i].v)

\* the record the node was written for: the entry of all_extracted_info
\* whose path is the node's relative_filepath_str attribute
RecordOf(node) ==
    all_extracted_info[CHOOSE i \in DOMAIN all_extracted_info :
        all_extracted_info[i].k = DictGet(node.attrs, KeyRelativeFilepathStr)].v

\* at least one channel dataset was written into the node
HasChannelDataset(node) == ~IsNone(node.sensor_values) /\ Val(node.sensor_values) # <<>>

\* C6: during the write pass, over any sequence of records, a node gets a
\* 'timestamps' dataset only if at least one channel dataset was written for
\* the same record.
C6_TimestampsOnlyWithChannelData ==
    \A i \in DOMAIN h5file : ~IsNone(h5file[i].timestamps) => HasChannelDataset(h5file[i])

\* C7: a failure while serializing one record skips at most that attribute
\* or dataset: no error of one record aborts the write pass, and every record
\* of the collection has its node once the pass is over.
C7_NoRecordAbortsWritePass ==
    phase = "done" =>
        /\ ~save_error
        /\ write_pos = Len(all_extracted_info)
        /\ \A i \in DOMAIN all_extracted_info :
              \E j \in DOMAIN h5file : h5file[j].name = GroupName(all_extracted_info[i].k)

\* C8: for records keyed by distinct relative paths the writer derives
\* distinct, non-empty node names that start with an alphanumeric character,
\* so that a write pass that ran to its end leaves exactly one top-level node
\* per record.
C8_DistinctNodePerRecord ==
    /\ \A i \in DOMAIN all_extracted_info :
          /\ GroupName(all_extracted_info[i].k) # <<>>
          /\ IsAlnumChar(GroupName(all_extracted_info[i].k)[1])
    /\ \A i, j \in DOMAIN all_extracted_info :
          i # j => GroupName(all_extracted_info[i].k) # GroupName(all_extracted_info[j].k)
    /\ (phase = "done" /\ ~save_error) => Len(h5file) = Len(all_extracted_info)

\* C9: every node that was created for a record with a sample rate carries
\* a 'sample_rate' attribute, the rate as a float, once the write pass is
\* over, whatever the record's channels and time stamps and whatever records
\* precede it.
C9_SampleRateAttributeWhenKnown ==
    phase = "done" =>
        \A i \in DOMAIN h5file :
            ~IsNone(RecordOf(h5file[i]).sample_rate) =>
                /\ DictHas(h5file[i].attrs, KeySampleRate)
                /\ DictGet(h5file[i].attrs, KeySampleRate) = Val(RecordOf(h5file[i]).sample_rate)

\* The severity token of a file name, read off the name itself: what
\* follows the first underscore after the condition, up to the extension's dot.
LastDot(name) == CHOOSE i \in DOMAIN name : name[i] = "." /\ \A j \in (i + 1)..Len(name) : name[j] # "."
FirstUnderscore(s) == CHOOSE i \in DOMAIN s : s[i] = "_" /\ \A j \in 1..(i - 1) : s[j] # "_"
SeverityToken(name) ==
    LET stem == SubSeq(name, 1, LastDot(name) - 1)
        after_load == SubSeq(stem, FirstUnderscore(stem) + 1, Len(stem))
    IN IF "_" \in Range(after_load)
       THEN SubSeq(after_load, FirstUnderscore(after_load) + 1, Len(after_load))
       ELSE <<>>

\* a name was parsed and accepted
Accepted == phase = "parsed" /\ ~IsNone(metadata)

\* C10 as stated: for every accepted file name severity is "No_Severity"
\* if and only if the name carries no severity token, and a non-empty token
\* is returned unchanged.
C10_SentinelIffNoToken ==
    Accepted =>
        /\ (Val(metadata).severity = NoSeverity) <=> (SeverityToken(filename) = <<>>)
        /\ SeverityToken(filename) # <<>> => Val(metadata).severity = SeverityToken(filename)

\* C10 amended: for every accepted file name severity is the severity token
\* when the name carries one and "No_Severity" when it carries none, so
\* severity is "No_Severity" if and only if the token is empty or is itself
\* the text "No_Severity".
C10_SeverityIsTokenOrSentinel ==
    Accepted =>
        /\ SeverityToken(filename) # <<>> => Val(metadata).severity = SeverityToken(filename)
        /\ SeverityToken(filename) = <<>> => Val(metadata).severity = NoSeverity
        /\ (Val(metadata).severity = NoSeverity)
              <=> (SeverityToken(filename) \in {<<>>, NoSeverity})

\* an accepted name with the underscore separator and nothing after it
C10_Witness ==
    /\ Accepted
    /\ Val(metadata).condition \o <<"_">> \o <<".">> \o Val(metadata).extension
          = SubSeq(filename, Len(Val(metadata).load) + 2, Len(filename))
    /\ Val(metadata).severity = NoSeverity

\* a load token as the grammar states it: one or more digits, then "Nm"
IsLoadForm(load) ==
    /\ Len(load) >= 3
    /\ \A i \in 1..(Len(load) - 2) : IsDigit(load[i])
    /\ load[Len(load) - 1] = "N"
    /\ load[Len(load)] = "m"

\* C11: parse_filename accepts a name only if it starts with digits followed
\* by the case-sensitive literal "Nm": the load of every descriptor has the
\* form <digits>Nm and its extension is "mat" or "tdms" in lower case.
C11_LoadIsDigitsThenNm ==
    Accepted =>
        /\ IsLoadForm(Val(metadata).load)
        /\ Val(metadata).load = SubSeq(filename, 1, Len(Val(metadata).load))
        /\ Val(metadata).extension \in {ExtMat, ExtTdms}

\* the directory segments of an absolute path: what stands between two
\* consecutive separators
DirSegments(path) ==
    {SubSeq(path, ab[1] + 1, ab[2] - 1) :
        ab \in {ab \in (DOMAIN path) \X (DOMAIN path) :
                        /\ ab[1] < ab[2]
                        /\ path[ab[1]] = sep
                        /\ path[ab[2]] = sep
                        /\ \A i \in (ab[1] + 1)..(ab[2] - 1) : path[i] # sep}}

\* C12: for every accepted name the sensor-type hint is not None: it is
\* 'Acoustic', 'Vibration' or 'Temp_Current' when the lower-cased path has a
\* directory segment 'acoustic', 'vibration' or 'current,temp' (in that
\* order of precedence), and otherwise the tag of the extension.
C12_SensorTypeFromDirectoryThenExtension ==
    Accepted =>
        LET segs == DirSegments(StrLower(Val(metadata).filepath))
            hint == Val(metadata).sensor_type
        IN /\ ~IsNone(hint)
           /\ Val(hint) =
                IF DirAcoustic \in segs THEN TypeAcoustic
                ELSE IF DirVibration \in segs THEN TypeVibration
                ELSE IF DirCurrentTemp \in segs THEN TypeTempCurrent
                ELSE IF Val(metadata).extension = ExtMat THEN TypeMatUnknownPath
                ELSE TypeTdmsUnknownPath

\* an accepted name below vibration/acoustic: both segments are in the path,
\* 'vibration' first, and the hint is 'Acoustic'
C12_Witness ==
    /\ Accepted
    /\ DirVibration \in DirSegments(StrLower(Val(metadata).filepath))
    /\ DirAcoustic \in DirSegments(StrLower(Val(metadata).filepath))
    /\ Val(metadata).sensor_type = Some(TypeAcoustic)

\* the sanitizers were applied to a generated string
Named == phase = "named"

\* C13: name sanitization is idempotent: for group names, attribute keys and
\* dataset names, sanitizing an already sanitized name returns it unchanged.
C13_SanitizationIdempotent ==
    Named =>
        /\ GroupName(sanitized.group_name) = sanitized.group_name
        /\ AttrKey(sanitized.attr_key) = sanitized.attr_key
        /\ DatasetName(sanitized.dataset_name) = sanitized.dataset_name

\* a string that lost a character to the substitutions and got the prefix
\* at all three sites
C13_Witness ==
    /\ Named
    /\ "[" \in Range(filename)
    /\ "." \in Range(filename)
    /\ StartsWith(sanitized.group_name, PrefixFile)
    /\ StartsWith(sanitized.attr_key, PrefixAttr)
    /\ StartsWith(sanitized.dataset_name, PrefixSensor)

\* C14: the writer applies the same character substitutions at every write
\* site: for any string the sanitizers of group names, metadata attribute
\* keys, channel-property keys and dataset names replace or remove the same
\* characters.
C14_SameSubstitutionsAtEverySite ==
    Named =>
        /\ ReplaceChain(filename, GroupNameRules) = ReplaceChain(filename, AttrKeyRules)
        /\ ReplaceChain(filename, AttrKeyRules) = ReplaceChain(filename, ChannelNameRules)
        /\ (filename # <<>> /\ IsAlnumChar(filename[1])) =>
              /\ sanitized.group_name = sanitized.attr_key
              /\ sanitized.attr_key = sanitized.p_key_safe
              /\ sanitized.p_key_safe = sanitized.dataset_name

KeyRawChannelNames == <<"r","a","w","_","c","h","a","n","n","e","l","_","n","a","m","e","s">>

\* the node holds the attribute `key` with the value `value`
HasAttr(node, key, value) == DictHas(node.attrs, key) /\ DictGet(node.attrs, key) = value

\* C15: for every record written, each field of its descriptor (filename,
\* load, condition, severity, extension, sensor-type hint, absolute path) and
\* each diagnostic field present on the record (error reason, warning
\* reason, raw channel name list) is an attribute of the record's node.
C15_DescriptorAndDiagnosticsAsAttributes ==
    \A i \in DOMAIN h5file :
        LET node == h5file[i]
            data == RecordOf(node)
            md == data.metadata
        IN /\ HasAttr(node, KeyFilename, md.filename)
           /\ HasAttr(node, KeyLoad, md.load)
           /\ HasAttr(node, KeyCondition, md.condition)
           /\ HasAttr(node, KeySeverity, md.severity)
           /\ HasAttr(node, KeyExtension, md.extension)
           /\ HasAttr(node, KeySensorType, Val(md.sensor_type))
           /\ HasAttr(node, KeyFilepath, md.filepath)
           /\ "extraction_error" \in data.keys =>
                 HasAttr(node, KeyExtractionError, Val(data.extraction_error))
           /\ "extraction_warning" \in data.keys =>
                 HasAttr(node, KeyExtractionWarning, Val(data.extraction_warning))
           /\ "raw_channel_names" \in data.keys => DictHas(node.attrs, KeyRawChannelNames)

\* the step is one iteration of the flattener's loop
ConvertStep == phase = "convert" /\ read_pos' = read_pos + 1

\* the group that iteration handles
CurrentGroup == GroupNamed(h5file, GroupKeys(h5file)[read_pos + 1])

\* the channel datasets that go into the table: not empty, 1-D or 2-D
TableDatasets(group) ==
    {i \in DOMAIN Val(group.sensor_values) :
        /\ Size(Val(group.sensor_values)[i].v) > 0
        /\ NDim(Val(group.sensor_values)[i].v) \in {1, 2}}

\* a 'sensor_values' sub-node with a non-empty dataset, and a non-empty
\* 'timestamps' dataset as long as every channel dataset of the table
Eligible(group) ==
    /\ ~IsNone(group.sensor_values)
    /\ \E i \in DOMAIN Val(group.sensor_values) : Size(Val(group.sensor_values)[i].v) > 0
    /\ ~IsNone(group.timestamps)
    /\ Len(Val(group.timestamps)) > 0
    /\ \A i \in TableDatasets(group) :
          Val(group.sensor_values)[i].v[1] = Len(Val(group.timestamps))

\* C16: the flattener writes a table for a node only if the node is
\* eligible (non-empty 'sensor_values' sub-node, non-empty 'timestamps' of
\* the row count of the channel datasets); a node that is not is skipped and
\* counted in skipped_no_data_count, never as an error.
C16_IneligibleNodesSkippedNotErrors ==
    [][ConvertStep =>
          /\ (csv_files' # csv_files \/ processed_count' # processed_count)
                => Eligible(CurrentGroup)
          /\ ~Eligible(CurrentGroup) =>
                /\ skipped_no_data_count' = skipped_no_data_count + 1
                /\ error_count' = error_count
                /\ processed_count' = processed_count
                /\ csv_files' = csv_files]_vars

\* the record has the one channel 'Vibration_Signal' of shape (N,1), a sample
\* rate and N time stamps
IsRoundTripRecord(info) ==
    /\ Len(info.sensor_values) = 1
    /\ info.sensor_values[1].k = DsVibration
    /\ NDim(info.sensor_values[1].v) = 2
    /\ info.sensor_values[1].v[2] = 1
    /\ ~IsNone(info.sample_rate)
    /\ ~IsNone(info.timestamps)
    /\ Len(Val(info.timestamps)) = info.sensor_values[1].v[1]

\* the names of the columns of a table, in order
ColumnNames(table) == [i \in DOMAIN table.columns |-> table.columns[i].k]

\* C17: round trip: a record with the one channel 'Vibration_Signal' of
\* shape (N,1), a sample rate and N time stamps, written to the archive and
\* flattened, gives a table of N rows with the columns 'Timestamp' and
\* 'Vibration_Signal' whose Timestamp column is the record's time stamps.
C17_RoundTripTable ==
    (/\ phase = "converted"
     /\ Len(all_extracted_info) = 1
     /\ IsRoundTripRecord(all_extracted_info[1].v))
    => /\ Len(csv_files) = 1
       /\ csv_files[1].v.rows = Len(Val(all_extracted_info[1].v.timestamps))
       /\ ColumnNames(csv_files[1].v) = <<ColTimestamp, DsVibration>>
       /\ csv_files[1].v.columns[1].v.data = Val(all_extracted_info[1].v.timestamps)

\* C18: one output file per eligible entry: two distinct nodes that are
\* converted are written to distinct CSV paths, so once the pass is over the
\* number of CSV files is processed_count.
C18_OneCsvFilePerConvertedNode ==
    phase = "converted" =>
        /\ Len(csv_files) = processed_count
        /\ \A i, j \in DOMAIN h5file :
              (/\ i # j
               /\ ConvertOutcome(h5file[i]) = "saved"
               /\ ConvertOutcome(h5file[j]) = "saved")
              => CsvFilepath(h5file[i].name) # CsvFilepath(h5file[j].name)

\* the sensor-type keywords a node name may hold
Keywords == {DirVibration, DirAcoustic, <<"t","e","m","p">>, <<"c","u","r","r","e","n","t">>}

MatchesKeyword(group_name) == \E k \in Keywords : StrContains(StrLower(group_name), k)

\* C19: the flattener picks the output location of a table by a sensor-type
\* keyword of the node name, and a node whose name holds no keyword is
\* skipped: no file is written for it.
C19_NodesWithoutKeywordSkipped ==
    [][(ConvertStep /\ ~MatchesKeyword(CurrentGroup.name)) =>
          /\ csv_files' = csv_files
          /\ processed_count' = processed_count]_vars


\* the allow-listed channels of the group, in the group's order
ConfiguredChannels(tdms) ==
    SelectSeq(tdms.channels, LAMBDA ch : ch.name \in Range(TDMS_CHANNEL_NAMES))

\* the data read of some allow-listed channel of the group raises
SomeReadRaises(tdms) ==
    \E i \in DOMAIN ConfiguredChannels(tdms) :
        ConfiguredChannels(tdms)[i].data.kind = "raises"

\* C20: when the data read of some allow-listed channels of a .tdms file
\* raises, every such channel has an entry in channel_read_errors under its
\* raw name, every other allow-listed channel of the group whose data is a
\* non-empty array is read and has a channel in sensor_values, and the
\* record is returned without extraction_error.
C20_ChannelReadErrorsAreIsolated ==
    (/\ AttemptedTdms
     /\ file_content.tdms.open = "ok"
     /\ TDMS_GROUP_NAME \in file_content.tdms.groups
     /\ SomeReadRaises(file_content.tdms)) =>
        /\ ~IsNone(extracted_info)
        /\ IsNone(Val(extracted_info).extraction_error)
        /\ \A i \in DOMAIN ConfiguredChannels(file_content.tdms) :
              LET channel_obj == ConfiguredChannels(file_content.tdms)[i]
              IN /\ channel_obj.data.kind = "raises" =>
                      /\ "channel_read_errors" \in Val(extracted_info).keys
                      /\ DictHas(Val(extracted_info).channel_read_errors, channel_obj.name)
                 /\ TdmsKeepsData(channel_obj.data) =>
                      channel_obj.name \in Range(Val(extracted_info).raw_channel_names)
        /\ Len(Val(extracted_info).sensor_values)
             = Len(Val(extracted_info).raw_channel_names)


\* the first pass over the channels of the configured group raises
TdmsFirstPassRaises(tdms) ==
    /\ tdms.open = "ok"
    /\ TDMS_GROUP_NAME \in tdms.groups
    /\ TdmsFirstPass(tdms.channels, TDMS_CHANNEL_NAMES,
          [props |-> <<>>, rate |-> None, found |-> <<>>, raised |-> FALSE]).raised

\* the file just handed to an extractor is missing, or an exception was
\* raised while it was extracted: on opening it, in the first pass over the
\* channels of a .tdms file, or in the shaping of the values of a .mat file
ExtractionRaised ==
    \/ /\ AttemptedMat
       /\ \/ file_content.mat.open \in {"not_found", "error"}
          \/ /\ file_content.mat.open = "ok"
             /\ file_content.mat.key # "none"
             /\ file_content.mat.record = "ok"
             /\ file_content.mat.y.kind = "struct"
             /\ MatValuesUsable(file_content.mat.y)
             /\ MatShapeValues(file_content.mat.y.shape).outcome = "raises"
    \/ /\ AttemptedTdms
       /\ \/ file_content.tdms.open \in {"not_found", "error"}
          \/ TdmsFirstPassRaises(file_content.tdms)

\* C21: a missing file or an exception raised while one file is extracted
\* gives a record with extraction_error set for that file, stored under the
\* file's relative path and classified as metadata-only; the walk goes on
\* (every file yielded so far is counted) and nothing propagates out of the
\* loop.
C21_ExceptionBecomesErrorRecord ==
    /\ ExtractionRaised =>
          /\ ~IsNone(extracted_info)
          /\ "extraction_error" \in Val(extracted_info).keys
          /\ ~IsNone(Val(extracted_info).extraction_error)
          /\ DictHas(all_extracted_info, relative_filepath)
          /\ DictGet(all_extracted_info, relative_filepath) = Val(extracted_info)
          /\ relative_filepath \in Range(processed_metadata_only_files)
    /\ phase = "walk" => total_files_in_directory = Cardinality(visited)

\* a missing file gave an error record, and a file yielded after it was
\* extracted with data
C21_Witness ==
    /\ Attempted
    /\ ~IsNone(extracted_info)
    /\ Val(extracted_info).sensor_values # <<>>
    /\ Len(all_extracted_info) = 2
    /\ all_extracted_info[1].v.extraction_error = Some("File not found.")
    /\ all_extracted_info[2].k = relative_filepath


\* the .mat file just extracted loaded and holds the nested record
MatRecordFound ==
    /\ AttemptedMat
    /\ file_content.mat.open = "ok"
    /\ file_content.mat.key # "none"
    /\ file_content.mat.record = "ok"

\* the channel name extract_data_from_mat derives from the sensor-type hint
MatSensorName(md) ==
    IF md.sensor_type = Some(TypeVibration) THEN TypeVibration \o SignalSuffix
    ELSE IF md.sensor_type = Some(TypeAcoustic) THEN TypeAcoustic \o SignalSuffix
    ELSE Val(md.sensor_type) \o SignalSuffix

\* C22: a non-empty numeric 'values' array of shape (N,) of a .mat file is
\* stored in sensor_values under the channel name derived from the hint with
\* the shape (N,1), and the record is classified as processed with data.
C22_OneDimValuesStoredAsColumn ==
    (/\ MatRecordFound
     /\ file_content.mat.y.kind = "struct"
     /\ MatValuesUsable(file_content.mat.y)
     /\ NDim(file_content.mat.y.shape) = 1) =>
        /\ ~IsNone(extracted_info)
        /\ DictHas(Val(extracted_info).sensor_values, MatSensorName(Val(metadata)))
        /\ DictGet(Val(extracted_info).sensor_values, MatSensorName(Val(metadata)))
              = <<file_content.mat.y.shape[1], 1>>
        /\ relative_filepath \in Range(processed_with_data_files)
        /\ relative_filepath \notin Range(processed_metadata_only_files)


\* the .tdms file just extracted went through both passes and the naming loop
TdmsChannelsRead ==
    /\ AttemptedTdms
    /\ file_content.tdms.open = "ok"
    /\ TDMS_GROUP_NAME \in file_content.tdms.groups
    /\ HasConfiguredChannel(file_content.tdms)
    /\ ~TdmsFirstPassRaises(file_content.tdms)

\* the channel of the group with the raw name `name`
ChannelNamed(tdms, name) ==
    tdms.channels[CHOOSE i \in DOMAIN tdms.channels : tdms.channels[i].name = name]

\* C23: every channel array extract_data_from_tdms stores is 2-D: an array
\* read with shape (N,) is stored as (N,1), one of shape (N,M) unchanged and
\* one of shape (N,M,K) as (N*M*K,1).
C23_TdmsStoredArraysAreTwoDim ==
    TdmsChannelsRead =>
        /\ ~IsNone(extracted_info)
        /\ Len(Val(extracted_info).sensor_values) = Len(Val(extracted_info).raw_channel_names)
        /\ \A i \in DOMAIN Val(extracted_info).sensor_values :
              LET read == ChannelNamed(file_content.tdms,
                                       Val(extracted_info).raw_channel_names[i]).data.shape
                  stored == Val(extracted_info).sensor_values[i].v
              IN /\ NDim(stored) = 2
                 /\ NDim(read) = 1 => stored = <<read[1], 1>>
                 /\ NDim(read) = 2 => stored = read
                 /\ NDim(read) = 3 => stored = <<read[1] * read[2] * read[3], 1>>

\* a record with a channel read as (1,2,2) and stored as (4,1)
C23_Witness ==
    /\ TdmsChannelsRead
    /\ \E i \in DOMAIN Val(extracted_info).sensor_values :
          /\ ChannelNamed(file_content.tdms,
                          Val(extracted_info).raw_channel_names[i]).data.shape = <<1, 2, 2>>
          /\ Val(extracted_info).sensor_values[i].v = <<4, 1>>


\* C24: for a .mat file whose x_values record gives the three scalars: with
\* increment > 0 and number_of_values > 0 timestamps has number_of_values
\* entries, timestamps[i] = start_value + i * increment, and sample_rate is
\* 1 / increment; otherwise timestamps stay None, the record carries a
\* warning and no error, and the channel data is still extracted.
C24_MatTimeAxisFromXValues ==
    (MatRecordFound /\ file_content.mat.x.kind = "struct") =>
        LET x == file_content.mat.x
            info == Val(extracted_info)
        IN /\ ~IsNone(extracted_info)
           /\ (x.increment > 0 /\ x.number_of_values > 0) =>
                 /\ ~IsNone(info.timestamps)
                 /\ Len(Val(info.timestamps)) = x.number_of_values
                 /\ \A i \in 1..x.number_of_values :
                       Val(info.timestamps)[i] = x.start_value + (i - 1) * x.increment
                 /\ info.sample_rate = Some([num |-> 1, den |-> x.increment])
           /\ (x.increment <= 0 \/ x.number_of_values <= 0) =>
                 /\ IsNone(info.timestamps)
                 /\ "extraction_warning" \in info.keys
                 /\ (file_content.mat.y.kind = "struct" /\ MatValuesUsable(file_content.mat.y)) =>
                       /\ info.sensor_values # <<>>
                       /\ "extraction_error" \notin info.keys


\* extract_data_from_tdms has returned for a generated group
Extracted == phase = "extracted" /\ ~IsNone(extracted_info)

\* C25: for any allow-list and any channels of the group, every channel read
\* with non-empty data is stored under a name of its own (Temperature_k,
\* Current_k, or the raw name, with the suffix on a collision): sensor_values
\* has as many entries as raw_channel_names, and the data of every channel
\* read is in it.
C25_EveryReadChannelHasOwnName ==
    Extracted =>
        /\ Len(Val(extracted_info).sensor_values) = Len(Val(extracted_info).raw_channel_names)
        /\ \A i \in DOMAIN Val(extracted_info).raw_channel_names :
              \E j \in DOMAIN Val(extracted_info).sensor_values :
                 Val(extracted_info).sensor_values[j].v =
                    TdmsShape(ChannelNamed(file_content.tdms,
                                           Val(extracted_info).raw_channel_names[i]).data.shape)


\* the wf_start_offset property of a channel as a number, 0 when the
\* property is missing or is not a number
StartOffsetOf(channel_obj) ==
    IF /\ DictHas(channel_obj.properties, KeyWfStartOffset)
       /\ DictGet(channel_obj.properties, KeyWfStartOffset).t \in {"num", "numstr"}
    THEN DictGet(channel_obj.properties, KeyWfStartOffset).n
    ELSE 0

\* C26: in every record extract_data_from_tdms returns, timestamps is not
\* None only if sample_rate is not None and sensor_values is not empty; the
\* time stamps then are as many as the first stored channel has rows, and
\* timestamps[i] = i * (1 / sample_rate) + offset with the wf_start_offset of
\* the first channel that gave data as offset, 0.0 when that property is
\* missing or not a number.
C26_TdmsTimestampsFromRateAndOffset ==
    (AttemptedTdms /\ ~IsNone(extracted_info)) =>
        LET info == Val(extracted_info) IN
        ~IsNone(info.timestamps) =>
            /\ ~IsNone(info.sample_rate)
            /\ info.sensor_values # <<>>
            /\ info.raw_channel_names # <<>>
            /\ Len(Val(info.timestamps)) = info.sensor_values[1].v[1]
            /\ \A i \in DOMAIN Val(info.timestamps) :
                  Val(info.timestamps)[i] =
                     (i - 1) * (Val(info.sample_rate).den \div Val(info.sample_rate).num)
                     + StartOffsetOf(ChannelNamed(file_content.tdms, info.raw_channel_names[1]))

\* the record just returned has 4 time stamps from 0 on, its first channel
\* with data having the offset 'noon' and another channel giving the rate;
\* a record returned before has time stamps from the offset 1 on
C26_Witness ==
    /\ AttemptedTdms
    /\ ~IsNone(extracted_info)
    /\ Val(extracted_info).timestamps = Some(<<0, 2, 4, 6>>)
    /\ DictGet(ChannelNamed(file_content.tdms,
                            Val(extracted_info).raw_channel_names[1]).properties,
               KeyWfStartOffset) = PStr("noon")
    /\ \E i \in DOMAIN all_extracted_info :
          all_extracted_info[i].v.timestamps = Some(<<1, 3>>)


\* the x_values record of the .mat file just extracted gives a sample count
\* that is not the number of rows of its values array
MatCountMismatch ==
    /\ MatRecordFound
    /\ file_content.mat.x.kind = "struct"
    /\ file_content.mat.x.increment > 0
    /\ file_content.mat.x.number_of_values > 0
    /\ file_content.mat.y.kind = "struct"
    /\ MatValuesUsable(file_content.mat.y)
    /\ file_content.mat.y.shape[1] # file_content.mat.x.number_of_values

\* a .mat record whose time stamps are not as many as its channel has rows
IsMismatchedRecord(info) ==
    /\ info.metadata.extension = ExtMat
    /\ ~IsNone(info.timestamps)
    /\ info.sensor_values # <<>>
    /\ Len(Val(info.timestamps)) # info.sensor_values[1].v[1]

\* C27: when the sample count of x_values differs from the number of rows of
\* the values array, extract_data_from_mat returns the record with
\* number_of_values time stamps and the channel with its own rows, without
\* extraction_error, and the file is counted as processed with data; the
\* flattener skips the node of such a record, so no table is written for it.
C27_CountMismatchKeptThenSkipped ==
    /\ [](MatCountMismatch =>
            /\ ~IsNone(extracted_info)
            /\ ~IsNone(Val(extracted_info).timestamps)
            /\ Len(Val(Val(extracted_info).timestamps)) = file_content.mat.x.number_of_values
            /\ Val(extracted_info).sensor_values # <<>>
            /\ Val(extracted_info).sensor_values[1].v[1] # file_content.mat.x.number_of_values
            /\ "extraction_error" \notin Val(extracted_info).keys
            /\ relative_filepath \in Range(processed_with_data_files))
    /\ [][(ConvertStep /\ IsMismatchedRecord(RecordOf(CurrentGroup))) =>
            /\ skipped_no_data_count' = skipped_no_data_count + 1
            /\ csv_files' = csv_files
            /\ processed_count' = processed_count]_vars


\* extracted_info of the .mat file just extracted as it is after the x_values
\* and y_values sections, before the two fallbacks
MatBeforeFallbacks ==
    MatSensorValues(MatTimeInfo(MatNewInfo(Val(metadata)), file_content.mat.x),
                    Val(metadata), file_content.mat.y)

IsExcludedName(name) ==
    \/ name[1] = "."
    \/ EndsWith(name, ZoneIdentifierSuffix)
    \/ RegexMatches(name) = {}

\* C29: at every point of the walk every file yielded so far was counted
\* once, as skipped or as attempted: total_files_in_directory =
\* len(skipped_initial_files) + relevant_files_attempted; a dotfile, a
\* ':Zone.Identifier' file or a file the pattern rejects is in the skipped
\* list and reaches no extractor; and no path is in both
\* processed_with_data_files and processed_metadata_only_files.
C29_WalkCountsEveryFileOnce ==
    /\ total_files_in_directory = Len(skipped_initial_files) + relevant_files_attempted
    /\ total_files_in_directory = Cardinality(visited)
    /\ (phase = "walk" /\ filename # <<>> /\ IsExcludedName(filename)) =>
          /\ relative_filepath \in Range(skipped_initial_files)
          /\ ~DictHas(all_extracted_info, relative_filepath)
    /\ \A i \in DOMAIN skipped_initial_files :
          /\ ~DictHas(all_extracted_info, skipped_initial_files[i])
          /\ skipped_initial_files[i] \notin Range(processed_with_data_files)
          /\ skipped_initial_files[i] \notin Range(processed_metadata_only_files)
    /\ Range(processed_with_data_files) \cap Range(processed_metadata_only_files) = {}

\* a name without a condition was skipped, and the file yielded after it
\* was extracted and is in one of the two lists
C29_Witness ==
    /\ Attempted
    /\ ~IsNone(extracted_info)
    /\ total_files_in_directory = 2
    /\ relevant_files_attempted = 1
    /\ skipped_initial_files = <<RelPath(DirVibration, NameNoCondition)>>
    /\ relative_filepath \in Range(processed_with_data_files)


\* the sum of the three counters of the flattener
CountedGroups == processed_count + skipped_no_data_count + error_count

\* C30: in the flattener every top-level group visited adds one to exactly
\* one of processed_count, skipped_no_data_count and error_count, so after a
\* pass that opened the archive their sum is the number of top-level groups;
\* a failure while a group's table is built or written is counted in
\* error_count and the groups after it are still handled.
C30_EveryGroupCountedOnce ==
    /\ [](/\ phase = "convert" => CountedGroups = read_pos
          /\ phase = "converted" => CountedGroups = Len(h5file))
    /\ [][ConvertStep =>
            /\ CountedGroups' = CountedGroups + 1
            /\ processed_count' \in {processed_count, processed_count + 1}
            /\ skipped_no_data_count' \in {skipped_no_data_count, skipped_no_data_count + 1}
            /\ error_count' \in {error_count, error_count + 1}
            /\ ConvertOutcome(CurrentGroup) = "error" => error_count' = error_count + 1]_vars

\* the pass is over: the table of the first group could not be built, and
\* the group after it was converted
C30_Witness ==
    /\ phase = "converted"
    /\ Len(h5file) = 2
    /\ ConvertOutcome(GroupNamed(h5file, GroupKeys(h5file)[1])) = "error"
    /\ error_count = 1
    /\ processed_count = 1

====
